---- MODULE Spec2Model ----
(***************************************************************************)
(* Verification model of the spectrum-visualizer colorimetry core          *)
(* (src/src/lib): spectrum analysis, spectrum -> XYZ integration and the   *)
(* chromaticity conversions.                                               *)
(*                                                                         *)
(* Numbers.  A JavaScript number is modelled as an exact rational <<n, d>> *)
(* in lowest terms with d > 0, extended with the three IEEE special values *)
(* a division can produce: PosInf = <<1, 0>>, NegInf = <<-1, 0>> and       *)
(* NaN = <<0, 0>>.  Rounding of the binary64 format is not modelled: every *)
(* result below is a statement about the code in exact arithmetic.         *)
(* A nullable value is modelled with Null = <<>>.                          *)
(***************************************************************************)
EXTENDS Integers, Sequences, FiniteSets, TLC

VARIABLES
    spectrum,   \* SpectrumPoint[] argument of a spectrum call; App state `spectrum`
    shiftNm,    \* shiftNm argument of analyzeSpectrum; App state `shiftNm`
    normalize,  \* normalize argument of spectrumToXYZ
    xyz,        \* XYZColor argument of xyzToXY / xyzToUV
    point,      \* coordinate pair argument of xyToUV / uvToXY / isInGamut
    vertices,   \* gamutVertices argument of isInGamut
    called,     \* "none" before the call, then the name of the function called
    out,        \* the value the call returned
    stepNm,           \* step argument of interpolateSpectrum
    startNm,          \* startWavelength argument of interpolateSpectrum
    endNm,            \* endWavelength argument of interpolateSpectrum
    numPoints,        \* numPoints argument of resampleSpectrum
    pc,               \* position of a call that is followed statement by statement
    gridWavelength,   \* loop variable `wavelength` of interpolateSpectrum
    locusData,        \* locusData argument of generateHighResolutionLocus
    diagramMode,      \* App state `diagramMode`, the `mode` prop of CIEDiagram
    intensityScale,   \* App state `intensityScale`, prop of CIEDiagram
    enabledGamuts,    \* App state `enabledGamuts`
    zoomTransform,    \* App state `zoomTransform`
    customAxisRanges, \* App state `customAxisRanges`
    snapshots,        \* state of the useSnapshots hook
    localStorage,     \* the two keys the application writes
    events,           \* number of user events handled so far
    renderedSnapshots, \* `snapshots` as the last render of the hook saw it
    isDragging,       \* CIEDiagram ref isDragging
    lastDragPos,      \* CIEDiagram ref lastDragPos (its x), Null when null
    accumulatedDelta, \* `accumulatedDelta` of the pointer effect
    animationFrameRef, \* rawX of the requested animation frame, Null when none
    dragDelta,        \* CIEDiagram state `dragDelta`, Null when null
    timers,           \* number of pending `setDragDelta(null)` timeouts
    isHoveringRidge   \* CIEDiagram state `isHoveringRidge`

\* the arguments of the colorimetry calls
coreArgs == <<spectrum, shiftNm, normalize, xyz, point, vertices>>

\* the arguments and the position of an interpolation call
interpolateArgs == <<stepNm, startNm, endNm, numPoints, pc, gridWavelength>>

\* what the diagram receives besides spectrum and shiftNm
diagramProps == <<locusData, diagramMode, intensityScale>>

\* the rest of the application state
appState ==
    <<enabledGamuts, zoomTransform, customAxisRanges, snapshots, localStorage, events,
      renderedSnapshots, isDragging, lastDragPos, accumulatedDelta, animationFrameRef,
      dragDelta, timers, isHoveringRidge>>

vars == <<coreArgs, called, out, interpolateArgs, diagramProps, appState>>

----------------------------------------------------------------------------
(* JavaScript numbers                                                      *)

Abs(n) == IF n < 0 THEN -n ELSE n

Sign(n) == IF n < 0 THEN -1 ELSE IF n > 0 THEN 1 ELSE 0

RECURSIVE GCD(_, _)
GCD(a, b) == IF b = 0 THEN a ELSE GCD(b, a % b)

\* the rational n/d (d # 0) in lowest terms
Rat(n, d) ==
    LET g == GCD(Abs(n), Abs(d))
        s == IF d < 0 THEN -1 ELSE 1
    IN  <<s * (n \div g), s * (d \div g)>>

R(n) == <<n, 1>>

NaN == <<0, 0>>
PosInf == <<1, 0>>
NegInf == <<-1, 0>>
Null == <<>>

IsNaN(a) == a = NaN
IsInf(a) == a[2] = 0 /\ a[1] # 0
IsFinite(a) == a[2] # 0

RNeg(a) == <<-a[1], a[2]>>

RAdd(a, b) ==
    IF IsNaN(a) \/ IsNaN(b) THEN NaN
    ELSE IF IsInf(a) /\ IsInf(b) THEN (IF a = b THEN a ELSE NaN)
    ELSE IF IsInf(a) THEN a
    ELSE IF IsInf(b) THEN b
    ELSE LET g == GCD(a[2], b[2])
             la == b[2] \div g
             lb == a[2] \div g
         IN  Rat(a[1] * la + b[1] * lb, a[2] * la)

RSub(a, b) == RAdd(a, RNeg(b))

RMul(a, b) ==
    IF IsNaN(a) \/ IsNaN(b) THEN NaN
    ELSE IF IsInf(a) \/ IsInf(b)
         THEN (IF a[1] = 0 \/ b[1] = 0 THEN NaN ELSE <<Sign(a[1]) * Sign(b[1]), 0>>)
    ELSE LET g1 == GCD(Abs(a[1]), b[2])
             g2 == GCD(Abs(b[1]), a[2])
         IN  Rat((a[1] \div g1) * (b[1] \div g2), (a[2] \div g2) * (b[2] \div g1))

\* x / 0 is +-Infinity, 0 / 0 is NaN
RDiv(a, b) ==
    IF IsNaN(a) \/ IsNaN(b) THEN NaN
    ELSE IF IsInf(b) THEN (IF IsInf(a) THEN NaN ELSE R(0))
    ELSE IF b[1] = 0 THEN (IF a[1] = 0 THEN NaN ELSE <<Sign(a[1]), 0>>)
    ELSE IF IsInf(a) THEN <<Sign(a[1]) * Sign(b[1]), 0>>
    ELSE RMul(a, Rat(b[2] * Sign(b[1]), Abs(b[1])))

\* comparisons: every comparison with NaN is false
RLt(a, b) ==
    IF IsNaN(a) \/ IsNaN(b) THEN FALSE
    ELSE IF IsInf(a) \/ IsInf(b)
         THEN (IF IsInf(a) /\ IsInf(b) THEN a[1] < b[1]
               ELSE IF IsInf(a) THEN a[1] < 0 ELSE b[1] > 0)
    ELSE RSub(a, b)[1] < 0

RGt(a, b) == RLt(b, a)
RLe(a, b) == ~IsNaN(a) /\ ~IsNaN(b) /\ ~RLt(b, a)
RGe(a, b) == RLe(b, a)

\* Math.floor / Math.ceil of a finite number, as an integer
Floor(a) == a[1] \div a[2]
Ceil(a) == -((-a[1]) \div a[2])

----------------------------------------------------------------------------
(* Array.prototype.sort((a, b) => a.wavelength - b.wavelength): a stable   *)
(* sort, ascending by wavelength                                           *)

RECURSIVE InsertByWavelength(_, _)
InsertByWavelength(sorted, p) ==
    IF sorted = <<>> THEN <<p>>
    ELSE LET n == Len(sorted)
         IN  IF RLt(p.wavelength, sorted[n].wavelength)
             THEN Append(InsertByWavelength(SubSeq(sorted, 1, n - 1), p), sorted[n])
             ELSE Append(sorted, p)

RECURSIVE SortByWavelength(_)
SortByWavelength(s) ==
    IF s = <<>> THEN <<>>
    ELSE LET n == Len(s)
         IN  InsertByWavelength(SortByWavelength(SubSeq(s, 1, n - 1)), s[n])

----------------------------------------------------------------------------
(* spectrum-analysis.ts                                                    *)

\* faulty variant: `>=` in the peak loop, the last of several tied maxima wins
RECURSIVE FindPeak_lastTie(_, _, _, _)
FindPeak_lastTie(sorted, i, peakIdx, peakIntensity) ==
    IF i > Len(sorted) THEN [peakIdx |-> peakIdx, peakIntensity |-> peakIntensity]
    ELSE IF RGe(sorted[i].intensity, peakIntensity)
         THEN FindPeak_lastTie(sorted, i + 1, i, sorted[i].intensity)
         ELSE FindPeak_lastTie(sorted, i + 1, peakIdx, peakIntensity)

\* the peak loop of analyzeSpectrum; indices are 1-based here
RECURSIVE FindPeak(_, _, _, _)
FindPeak(sorted, i, peakIdx, peakIntensity) ==
    IF i > Len(sorted) THEN [peakIdx |-> peakIdx, peakIntensity |-> peakIntensity]
    ELSE IF RGt(sorted[i].intensity, peakIntensity)
         THEN FindPeak(sorted, i + 1, i, sorted[i].intensity)
         ELSE FindPeak(sorted, i + 1, peakIdx, peakIntensity)

\* faulty variant: the left crossing is reported without the shift
RECURSIVE LeftCrossing_noShift(_, _, _, _)
LeftCrossing_noShift(s, i, level, d) ==
    IF i <= 1 THEN Null
    ELSE IF RGe(s[i].intensity, level) /\ RLt(s[i - 1].intensity, level)
         THEN LET t == RDiv(RSub(level, s[i - 1].intensity),
                            RSub(s[i].intensity, s[i - 1].intensity))
              IN  RAdd(s[i - 1].wavelength,
                       RMul(t, RSub(s[i].wavelength, s[i - 1].wavelength)))
         ELSE LeftCrossing_noShift(s, i - 1, level, d)

\* the leftward loop of findWidthAtLevel, entered with i = peakIdx
RECURSIVE LeftCrossing(_, _, _, _)
LeftCrossing(s, i, level, d) ==
    IF i <= 1 THEN Null
    ELSE IF RGe(s[i].intensity, level) /\ RLt(s[i - 1].intensity, level)
         THEN LET t == RDiv(RSub(level, s[i - 1].intensity),
                            RSub(s[i].intensity, s[i - 1].intensity))
              IN  RAdd(RAdd(s[i - 1].wavelength,
                            RMul(t, RSub(s[i].wavelength, s[i - 1].wavelength))), d)
         ELSE LeftCrossing(s, i - 1, level, d)

\* faulty variant: `>` for `>=` in the rightward test, a sample exactly at the level
\* no longer starts a crossing
RECURSIVE RightCrossing_strict(_, _, _, _)
RightCrossing_strict(s, i, level, d) ==
    IF i >= Len(s) THEN Null
    ELSE IF RGt(s[i].intensity, level) /\ RLt(s[i + 1].intensity, level)
         THEN LET t == RDiv(RSub(level, s[i].intensity),
                            RSub(s[i + 1].intensity, s[i].intensity))
              IN  RAdd(RAdd(s[i].wavelength,
                            RMul(t, RSub(s[i + 1].wavelength, s[i].wavelength))), d)
         ELSE RightCrossing_strict(s, i + 1, level, d)

\* the rightward loop of findWidthAtLevel, entered with i = peakIdx
RECURSIVE RightCrossing(_, _, _, _)
RightCrossing(s, i, level, d) ==
    IF i >= Len(s) THEN Null
    ELSE IF RGe(s[i].intensity, level) /\ RLt(s[i + 1].intensity, level)
         THEN LET t == RDiv(RSub(level, s[i].intensity),
                            RSub(s[i + 1].intensity, s[i].intensity))
              IN  RAdd(RAdd(s[i].wavelength,
                            RMul(t, RSub(s[i + 1].wavelength, s[i].wavelength))), d)
         ELSE RightCrossing(s, i + 1, level, d)

\* faulty variant: the range is returned as [rightWl, leftWl]
findWidthAtLevel_swapped(s, peakIdx, level, d) ==
    LET leftWl == LeftCrossing(s, peakIdx, level, d)
        rightWl == RightCrossing(s, peakIdx, level, d)
    IN  IF leftWl # Null /\ rightWl # Null THEN <<rightWl, leftWl>> ELSE Null

findWidthAtLevel(s, peakIdx, level, d) ==
    LET leftWl == LeftCrossing(s, peakIdx, level, d)
        rightWl == RightCrossing(s, peakIdx, level, d)
    IN  IF leftWl # Null /\ rightWl # Null THEN <<leftWl, rightWl>> ELSE Null

\* faulty variant: the peak wavelength is reported unshifted
analyzeSpectrum_unshiftedPeak(s, d) ==
    IF Len(s) = 0
    THEN [peakWavelength |-> R(0), peakIntensity |-> R(0),
          fwhm |-> Null, fwhmRange |-> Null, fwqm |-> Null, fwqmRange |-> Null]
    ELSE LET sorted == SortByWavelength(s)
             pk == FindPeak(sorted, 1, 1, NegInf)
             fwhmRange == findWidthAtLevel(sorted, pk.peakIdx, RDiv(pk.peakIntensity, R(2)), d)
             fwqmRange == findWidthAtLevel(sorted, pk.peakIdx, RDiv(pk.peakIntensity, R(4)), d)
         IN  [peakWavelength |-> sorted[pk.peakIdx].wavelength,
              peakIntensity |-> pk.peakIntensity,
              fwhm |-> IF fwhmRange # Null THEN RSub(fwhmRange[2], fwhmRange[1]) ELSE Null,
              fwhmRange |-> fwhmRange,
              fwqm |-> IF fwqmRange # Null THEN RSub(fwqmRange[2], fwqmRange[1]) ELSE Null,
              fwqmRange |-> fwqmRange]

analyzeSpectrum(s, d) ==
    IF Len(s) = 0
    THEN [peakWavelength |-> R(0), peakIntensity |-> R(0),
          fwhm |-> Null, fwhmRange |-> Null, fwqm |-> Null, fwqmRange |-> Null]
    ELSE LET sorted == SortByWavelength(s)
             pk == FindPeak(sorted, 1, 1, NegInf)
             halfMax == RDiv(pk.peakIntensity, R(2))
             fwhmRange == findWidthAtLevel(sorted, pk.peakIdx, halfMax, d)
             quarterMax == RDiv(pk.peakIntensity, R(4))
             fwqmRange == findWidthAtLevel(sorted, pk.peakIdx, quarterMax, d)
         IN  [peakWavelength |-> RAdd(sorted[pk.peakIdx].wavelength, d),
              peakIntensity |-> pk.peakIntensity,
              fwhm |-> IF fwhmRange # Null THEN RSub(fwhmRange[2], fwhmRange[1]) ELSE Null,
              fwhmRange |-> fwhmRange,
              fwqm |-> IF fwqmRange # Null THEN RSub(fwqmRange[2], fwqmRange[1]) ELSE Null,
              fwqmRange |-> fwqmRange]

----------------------------------------------------------------------------
(* data/cie1931.ts                                                         *)

\* CIE1931_OBSERVER rows <<wavelength, x, y, z>>, x y z in units of 10^-6
ObserverRows ==
    <<<<380, 1368, 39, 6450>>, <<385, 2236, 64, 10550>>, <<390, 4243, 120, 20050>>,
      <<395, 7650, 217, 36210>>, <<400, 14310, 396, 67850>>, <<405, 23190, 640, 110200>>,
      <<410, 43510, 1210, 207400>>, <<415, 77630, 2180, 371300>>, <<420, 134380, 4000, 645600>>,
      <<425, 214770, 7300, 1039050>>, <<430, 283900, 11600, 1385600>>, <<435, 328500, 16840, 1622960>>,
      <<440, 348280, 23000, 1747060>>, <<445, 348060, 29800, 1782600>>, <<450, 336200, 38000, 1772110>>,
      <<455, 318700, 48000, 1744100>>, <<460, 290800, 60000, 1669200>>, <<465, 251100, 73900, 1528100>>,
      <<470, 195360, 90980, 1287640>>, <<475, 142100, 112600, 1041900>>, <<480, 95640, 139020, 812950>>,
      <<485, 58010, 169300, 616200>>, <<490, 32010, 208020, 465180>>, <<495, 14700, 258600, 353300>>,
      <<500, 4900, 323000, 272000>>, <<505, 2400, 407300, 212300>>, <<510, 9300, 503000, 158200>>,
      <<515, 29100, 608200, 111700>>, <<520, 63270, 710000, 78250>>, <<525, 109600, 793200, 57250>>,
      <<530, 165500, 862000, 42160>>, <<535, 225750, 914850, 29840>>, <<540, 290400, 954000, 20300>>,
      <<545, 359700, 980300, 13400>>, <<550, 433450, 994950, 8750>>, <<555, 512050, 1000000, 5750>>,
      <<560, 594500, 995000, 3900>>, <<565, 678400, 978600, 2750>>, <<570, 762100, 952000, 2100>>,
      <<575, 842500, 915400, 1800>>, <<580, 916300, 870000, 1650>>, <<585, 978600, 816300, 1400>>,
      <<590, 1026300, 757000, 1100>>, <<595, 1056700, 694900, 1000>>, <<600, 1062200, 631000, 800>>,
      <<605, 1045600, 566800, 600>>, <<610, 1002600, 503000, 340>>, <<615, 938400, 441200, 240>>,
      <<620, 854450, 381000, 190>>, <<625, 751400, 321000, 100>>, <<630, 642400, 265000, 50>>,
      <<635, 541900, 217000, 30>>, <<640, 447900, 175000, 20>>, <<645, 360800, 138200, 10>>,
      <<650, 283500, 107000, 0>>, <<655, 218700, 81600, 0>>, <<660, 164900, 61000, 0>>,
      <<665, 121200, 44580, 0>>, <<670, 87400, 32000, 0>>, <<675, 63600, 23200, 0>>,
      <<680, 46770, 17000, 0>>, <<685, 32900, 11920, 0>>, <<690, 22700, 8210, 0>>,
      <<695, 15840, 5723, 0>>, <<700, 11359, 4102, 0>>, <<705, 8111, 2929, 0>>,
      <<710, 5790, 2091, 0>>, <<715, 4109, 1484, 0>>, <<720, 2899, 1047, 0>>,
      <<725, 2049, 740, 0>>, <<730, 1440, 520, 0>>, <<735, 1000, 361, 0>>,
      <<740, 690, 249, 0>>, <<745, 476, 172, 0>>, <<750, 332, 120, 0>>,
      <<755, 235, 85, 0>>, <<760, 166, 60, 0>>, <<765, 117, 42, 0>>,
      <<770, 83, 30, 0>>, <<775, 59, 21, 0>>, <<780, 42, 15, 0>>>>
ObserverLength == Len(ObserverRows)

\* CIE1931_OBSERVER[i][component], i 0-based, component 2 = x, 3 = y, 4 = z
CIE1931_OBSERVER(i, component) == Rat(ObserverRows[i + 1][component], 1000000)

\* SPECTRAL_LOCUS_XY rows <<wavelength, x, y>>, x y in units of 10^-4
LocusRows ==
    <<<<380, 1741, 50>>, <<385, 1740, 50>>, <<390, 1738, 49>>, <<395, 1736, 49>>,
      <<400, 1733, 48>>, <<405, 1730, 48>>, <<410, 1726, 48>>, <<415, 1721, 48>>,
      <<420, 1714, 51>>, <<425, 1703, 58>>, <<430, 1689, 69>>, <<435, 1669, 86>>,
      <<440, 1644, 109>>, <<445, 1611, 138>>, <<450, 1566, 177>>, <<455, 1510, 227>>,
      <<460, 1440, 297>>, <<465, 1355, 399>>, <<470, 1241, 578>>, <<475, 1096, 868>>,
      <<480, 913, 1327>>, <<485, 687, 2007>>, <<490, 454, 2950>>, <<495, 235, 4127>>,
      <<500, 82, 5384>>, <<505, 39, 6548>>, <<510, 139, 7502>>, <<515, 389, 8120>>,
      <<520, 743, 8338>>, <<525, 1142, 8262>>, <<530, 1547, 8059>>, <<535, 1929, 7816>>,
      <<540, 2296, 7543>>, <<545, 2658, 7243>>, <<550, 3016, 6923>>, <<555, 3373, 6589>>,
      <<560, 3731, 6245>>, <<565, 4087, 5896>>, <<570, 4441, 5547>>, <<575, 4788, 5202>>,
      <<580, 5125, 4866>>, <<585, 5448, 4544>>, <<590, 5752, 4242>>, <<595, 6029, 3965>>,
      <<600, 6270, 3725>>, <<605, 6482, 3514>>, <<610, 6658, 3340>>, <<615, 6801, 3197>>,
      <<620, 6915, 3083>>, <<625, 7006, 2993>>, <<630, 7079, 2920>>, <<635, 7140, 2859>>,
      <<640, 7190, 2809>>, <<645, 7230, 2770>>, <<650, 7260, 2740>>, <<655, 7283, 2717>>,
      <<660, 7300, 2700>>, <<665, 7311, 2689>>, <<670, 7320, 2680>>, <<675, 7327, 2673>>,
      <<680, 7334, 2666>>, <<685, 7340, 2660>>, <<690, 7344, 2656>>, <<695, 7346, 2654>>,
      <<700, 7347, 2653>>, <<705, 7347, 2653>>, <<710, 7347, 2653>>, <<715, 7347, 2653>>,
      <<720, 7347, 2653>>, <<725, 7347, 2653>>, <<730, 7347, 2653>>, <<735, 7347, 2653>>,
      <<740, 7347, 2653>>, <<745, 7347, 2653>>, <<750, 7347, 2653>>, <<755, 7347, 2653>>,
      <<760, 7347, 2653>>, <<765, 7347, 2653>>, <<770, 7347, 2653>>, <<775, 7347, 2653>>,
      <<780, 7347, 2653>>>>

XY(x, y) == [x |-> x, y |-> y]
UV(u, v) == [u |-> u, v |-> v]

\* COLOR_GAMUTS[...].vertices
sRGB == <<XY(Rat(64, 100), Rat(33, 100)), XY(Rat(30, 100), Rat(60, 100)),
          XY(Rat(15, 100), Rat(6, 100))>>
DCI_P3 == <<XY(Rat(680, 1000), Rat(320, 1000)), XY(Rat(265, 1000), Rat(690, 1000)),
            XY(Rat(150, 1000), Rat(60, 1000))>>
BT_2020 == <<XY(Rat(708, 1000), Rat(292, 1000)), XY(Rat(170, 1000), Rat(797, 1000)),
             XY(Rat(131, 1000), Rat(46, 1000))>>
AdobeRGB == <<XY(Rat(6400, 10000), Rat(3300, 10000)), XY(Rat(2100, 10000), Rat(7100, 10000)),
              XY(Rat(1500, 10000), Rat(600, 10000))>>
COLOR_GAMUTS == {sRGB, DCI_P3, BT_2020, AdobeRGB}

----------------------------------------------------------------------------
(* spectrum-to-xyz.ts                                                      *)

Min(a, b) == IF a < b THEN a ELSE b

\* component: 2 = 'x', 3 = 'y', 4 = 'z'
interpolateObserver(wavelength, component) ==
    IF RLt(wavelength, R(380)) \/ RGt(wavelength, R(780)) THEN R(0)
    ELSE LET index == RDiv(RSub(wavelength, R(380)), R(5))
             lowerIndex == Floor(index)
             upperIndex == Ceil(index)
         IN  IF lowerIndex = upperIndex \/ upperIndex >= ObserverLength
             THEN CIE1931_OBSERVER(Min(lowerIndex, ObserverLength - 1), component)
             ELSE LET t == RSub(index, R(lowerIndex))
                      lower == CIE1931_OBSERVER(lowerIndex, component)
                      upper == CIE1931_OBSERVER(upperIndex, component)
                  IN  RAdd(lower, RMul(t, RSub(upper, lower)))

\* one step of the trapezoidal loop for one channel: the term added for the
\* pair (sorted[i], sorted[i + 1])
Trapezoid(sorted, i, component) ==
    LET lambda1 == sorted[i].wavelength
        lambda2 == sorted[i + 1].wavelength
        dLambda == RSub(lambda2, lambda1)
        c1 == interpolateObserver(lambda1, component)
        c2 == interpolateObserver(lambda2, component)
    IN  RMul(RMul(Rat(1, 2),
                  RAdd(RMul(sorted[i].intensity, c1), RMul(sorted[i + 1].intensity, c2))),
             dLambda)

\* the loop `for (i = 0; i < sorted.length - 1; i++)`, accumulating from 0
RECURSIVE Integrate(_, _, _)
Integrate(sorted, n, component) ==
    IF n < 1 THEN R(0)
    ELSE RAdd(Integrate(sorted, n - 1, component), Trapezoid(sorted, n, component))

\* faulty variant: the points are integrated in the order given
spectrumToXYZ_unsorted(s, norm) ==
    LET X == Integrate(s, Len(s) - 1, 2)
        Y == Integrate(s, Len(s) - 1, 3)
        Z == Integrate(s, Len(s) - 1, 4)
    IN  IF norm /\ RGt(Y, R(0))
        THEN LET k == RDiv(R(100), Y)
             IN  [X |-> RMul(X, k), Y |-> R(100), Z |-> RMul(Z, k)]
        ELSE [X |-> X, Y |-> Y, Z |-> Z]

\* faulty variant: the guard `Y > 0` written as `Y !== 0`
spectrumToXYZ_nonZeroGuard(s, norm) ==
    LET sorted == SortByWavelength(s)
        X == Integrate(sorted, Len(sorted) - 1, 2)
        Y == Integrate(sorted, Len(sorted) - 1, 3)
        Z == Integrate(sorted, Len(sorted) - 1, 4)
    IN  IF norm /\ Y # R(0)
        THEN LET k == RDiv(R(100), Y)
             IN  [X |-> RMul(X, k), Y |-> R(100), Z |-> RMul(Z, k)]
        ELSE [X |-> X, Y |-> Y, Z |-> Z]

spectrumToXYZ(s, norm) ==
    LET sorted == SortByWavelength(s)
        X == Integrate(sorted, Len(sorted) - 1, 2)
        Y == Integrate(sorted, Len(sorted) - 1, 3)
        Z == Integrate(sorted, Len(sorted) - 1, 4)
    IN  IF norm /\ RGt(Y, R(0))
        THEN LET k == RDiv(R(100), Y)
             IN  [X |-> RMul(X, k), Y |-> R(100), Z |-> RMul(Z, k)]
        ELSE [X |-> X, Y |-> Y, Z |-> Z]

----------------------------------------------------------------------------
(* chromaticity.ts                                                         *)

\* the D65 fallbacks (0.3127, 0.3290) and (0.1978, 0.4683)
D65_XY == XY(Rat(3127, 10000), Rat(3290, 10000))
D65_UV == UV(Rat(1978, 10000), Rat(4683, 10000))

\* faulty variant: no guard on the denominator
xyzToXY_unguarded(c) ==
    LET sum == RAdd(RAdd(c.X, c.Y), c.Z)
    IN  XY(RDiv(c.X, sum), RDiv(c.Y, sum))

xyzToXY(c) ==
    LET sum == RAdd(RAdd(c.X, c.Y), c.Z)
    IN  IF sum = R(0) THEN D65_XY
        ELSE XY(RDiv(c.X, sum), RDiv(c.Y, sum))

xyzToUV(c) ==
    LET denom == RAdd(RAdd(c.X, RMul(R(15), c.Y)), RMul(R(3), c.Z))
    IN  IF denom = R(0) THEN D65_UV
        ELSE UV(RDiv(RMul(R(4), c.X), denom), RDiv(RMul(R(9), c.Y), denom))

xyToUV(xy) ==
    LET denom == RAdd(RAdd(RMul(R(-2), xy.x), RMul(R(12), xy.y)), R(3))
    IN  IF denom = R(0) THEN D65_UV
        ELSE UV(RDiv(RMul(R(4), xy.x), denom), RDiv(RMul(R(9), xy.y), denom))

\* faulty variant: the x formula of uvToXY with the coefficient of xyToUV (4 for 9)
uvToXY_wrongCoefficient(uv) ==
    LET denom == RAdd(RSub(RMul(R(6), uv.u), RMul(R(16), uv.v)), R(12))
    IN  IF denom = R(0) THEN D65_XY
        ELSE XY(RDiv(RMul(R(4), uv.u), denom), RDiv(RMul(R(4), uv.v), denom))

uvToXY(uv) ==
    LET denom == RAdd(RSub(RMul(R(6), uv.u), RMul(R(16), uv.v)), R(12))
    IN  IF denom = R(0) THEN D65_XY
        ELSE XY(RDiv(RMul(R(9), uv.u), denom), RDiv(RMul(R(4), uv.v), denom))

\* faulty variant: strict comparisons, the boundary of the triangle is outside
isInGamut_strict(p, gamutVertices) ==
    IF Len(gamutVertices) # 3 THEN FALSE
    ELSE LET v1 == gamutVertices[1]
             v2 == gamutVertices[2]
             v3 == gamutVertices[3]
             denom == RAdd(RMul(RSub(v2.y, v3.y), RSub(v1.x, v3.x)),
                           RMul(RSub(v3.x, v2.x), RSub(v1.y, v3.y)))
             a == RDiv(RAdd(RMul(RSub(v2.y, v3.y), RSub(p.x, v3.x)),
                            RMul(RSub(v3.x, v2.x), RSub(p.y, v3.y))), denom)
             b == RDiv(RAdd(RMul(RSub(v3.y, v1.y), RSub(p.x, v3.x)),
                            RMul(RSub(v1.x, v3.x), RSub(p.y, v3.y))), denom)
             c == RSub(RSub(R(1), a), b)
         IN  /\ RGt(a, R(0)) /\ RLt(a, R(1))
             /\ RGt(b, R(0)) /\ RLt(b, R(1))
             /\ RGt(c, R(0)) /\ RLt(c, R(1))

isInGamut(p, gamutVertices) ==
    IF Len(gamutVertices) # 3 THEN FALSE
    ELSE LET v1 == gamutVertices[1]
             v2 == gamutVertices[2]
             v3 == gamutVertices[3]
             denom == RAdd(RMul(RSub(v2.y, v3.y), RSub(v1.x, v3.x)),
                           RMul(RSub(v3.x, v2.x), RSub(v1.y, v3.y)))
             a == RDiv(RAdd(RMul(RSub(v2.y, v3.y), RSub(p.x, v3.x)),
                            RMul(RSub(v3.x, v2.x), RSub(p.y, v3.y))), denom)
             b == RDiv(RAdd(RMul(RSub(v3.y, v1.y), RSub(p.x, v3.x)),
                            RMul(RSub(v1.x, v3.x), RSub(p.y, v3.y))), denom)
             c == RSub(RSub(R(1), a), b)
         IN  /\ RGe(a, R(0)) /\ RLe(a, R(1))
             /\ RGe(b, R(0)) /\ RLe(b, R(1))
             /\ RGe(c, R(0)) /\ RLe(c, R(1))

\* wavelength-shift.ts getPeakWavelength: one pass over the array as given
RECURSIVE PeakScan(_, _, _, _)
PeakScan(s, i, maxIntensity, peakWavelength) ==
    IF i > Len(s) THEN peakWavelength
    ELSE IF RGt(s[i].intensity, maxIntensity)
         THEN PeakScan(s, i + 1, s[i].intensity, s[i].wavelength)
         ELSE PeakScan(s, i + 1, maxIntensity, peakWavelength)

shiftSpectrum(s, d) ==
    [i \in 1..Len(s) |-> [wavelength |-> RAdd(s[i].wavelength, d),
                          intensity |-> s[i].intensity]]

getPeakWavelength(s) ==
    IF Len(s) = 0 THEN R(0) ELSE PeakScan(s, 1, NegInf, s[1].wavelength)

----------------------------------------------------------------------------
(* index.ts                                                                *)

\* hexColor (xyzToHex) goes through Math.pow and has no rational model; it
\* reads xyz only and is left out of the record
calculateChromaticity(s) ==
    LET c == spectrumToXYZ(s, TRUE)
    IN  [xyz |-> c, cie1931 |-> xyzToXY(c), cie1976 |-> xyzToUV(c),
         dominantWavelength |-> getPeakWavelength(s)]

----------------------------------------------------------------------------
(* The variables a call does not use keep these values                     *)

\* useSnapshots.ts
MAX_SNAPSHOTS == 10

NoInterpolation ==
    /\ stepNm = R(1)
    /\ startNm = Null
    /\ endNm = Null
    /\ numPoints = 0
    /\ pc = "idle"
    /\ gridWavelength = R(0)

NoDiagram ==
    /\ locusData = <<>>
    /\ diagramMode = "CIE1931"
    /\ intensityScale = R(1)

\* no pointer is down on the diagram and no timeout is pending
NoPointer ==
    /\ isDragging = FALSE
    /\ lastDragPos = Null
    /\ accumulatedDelta = R(0)
    /\ animationFrameRef = Null
    /\ dragDelta = Null
    /\ timers = 0
    /\ isHoveringRidge = FALSE

NoApplication ==
    /\ enabledGamuts = <<"sRGB">>
    /\ zoomTransform = Null
    /\ customAxisRanges = Null
    /\ snapshots = <<>>
    /\ localStorage = [session |-> Null, snapshots |-> Null]
    /\ events = 0
    /\ renderedSnapshots = <<>>
    /\ NoPointer

----------------------------------------------------------------------------
(* Inputs of the analysis calls                                            *)

MaxLen == 3

Point(w, i) == [wavelength |-> w, intensity |-> i]

AnalysisWavelengths == {R(500), R(505), R(510)}
AnalysisIntensities == {R(-1), R(0), Rat(1, 2), R(1)}
AnalysisPoints == {Point(w, i) : w \in AnalysisWavelengths, i \in AnalysisIntensities}

SeqsUpTo(S, n) == UNION {[1..k -> S] : k \in 0..n}

Shifts == {R(-2), R(0), Rat(7, 2)}

\* the documented tie-break scenario [(500,1.0),(505,1.0),(510,0.5)]
TieExample == <<Point(R(500), R(1)), Point(R(505), R(1)), Point(R(510), Rat(1, 2))>>

\* a peak followed by a sample exactly at half maximum: the rightward scan
\* has to pass one pair before it finds the crossing
PlateauExample ==
    <<Point(R(500), R(0)), Point(R(505), R(1)), Point(R(510), Rat(1, 2)),
      Point(R(520), R(0))>>

\* unsorted, two tied maxima, crossings two samples away from the peak
TwinPeakExample ==
    <<Point(R(520), R(0)), Point(R(500), R(0)), Point(R(510), R(1)),
      Point(R(505), Rat(1, 2)), Point(R(515), R(1))>>

NamedSpectra == {PlateauExample, TwinPeakExample}

AnalysisSpectra == SeqsUpTo(AnalysisPoints, MaxLen) \cup NamedSpectra

ZeroXYZ == [X |-> R(0), Y |-> R(0), Z |-> R(0)]

InitAnalysis ==
    /\ spectrum \in AnalysisSpectra
    /\ shiftNm = R(0)
    /\ normalize = TRUE
    /\ xyz = ZeroXYZ
    /\ point = D65_XY
    /\ vertices = sRGB
    /\ called = "none"
    /\ out = Null
    /\ NoInterpolation /\ NoDiagram /\ NoApplication

CallAnalyzeSpectrum ==
    /\ called = "none"
    /\ \E d \in Shifts :
         /\ shiftNm' = d
         /\ out' = analyzeSpectrum(spectrum, d)
    /\ called' = "analyzeSpectrum"
    /\ UNCHANGED <<spectrum, normalize, xyz, point, vertices>>
    /\ UNCHANGED <<interpolateArgs, diagramProps, appState>>

NextAnalysis == CallAnalyzeSpectrum

SpecAnalysis == InitAnalysis /\ [][NextAnalysis]_vars

----------------------------------------------------------------------------
(* Inputs of the integration calls: samples at the violet end of the       *)
(* observer table: one below its range (375), its first row (380), one      *)
(* between two rows (382)                                                  *)

XYZWavelengths == {R(375), R(380), R(382)}
XYZIntensities == {R(-1), R(0), R(1)}
XYZPoints == {Point(w, i) : w \in XYZWavelengths, i \in XYZIntensities}

InitXYZ ==
    /\ spectrum \in SeqsUpTo(XYZPoints, MaxLen)
    /\ shiftNm = R(0)
    /\ normalize = TRUE
    /\ xyz = ZeroXYZ
    /\ point = D65_XY
    /\ vertices = sRGB
    /\ called = "none"
    /\ out = Null
    /\ NoInterpolation /\ NoDiagram /\ NoApplication

CallSpectrumToXYZ ==
    /\ called = "none"
    /\ \E n \in BOOLEAN :
         /\ normalize' = n
         /\ out' = spectrumToXYZ(spectrum, n)
    /\ called' = "spectrumToXYZ"
    /\ UNCHANGED <<spectrum, shiftNm, xyz, point, vertices>>
    /\ UNCHANGED <<interpolateArgs, diagramProps, appState>>

CallCalculateChromaticity ==
    /\ called = "none"
    /\ out' = calculateChromaticity(spectrum)
    /\ called' = "calculateChromaticity"
    /\ UNCHANGED <<spectrum, shiftNm, normalize, xyz, point, vertices>>
    /\ UNCHANGED <<interpolateArgs, diagramProps, appState>>

NextXYZ == CallSpectrumToXYZ \/ CallCalculateChromaticity

SpecXYZ == InitXYZ /\ [][NextXYZ]_vars

----------------------------------------------------------------------------
(* Inputs of the conversion calls                                          *)

GridMax == 30
GridDen == 20

GridCoordinates == {Rat(i, GridDen) : i \in 0..GridMax}

GamutVertices == UNION {{g[i] : i \in 1..Len(g)} : g \in COLOR_GAMUTS}

\* the documented point beyond sRGB but within BT.2020
BeyondSRGB == XY(Rat(70, 100), Rat(29, 100))

PointInputs ==
    {XY(x, y) : x \in GridCoordinates, y \in GridCoordinates}
        \cup GamutVertices \cup {BeyondSRGB}

XYZInputs ==
    LET C == {R(-15), R(-3), R(-1), R(0), R(1), R(2)}
    IN  {[X |-> a, Y |-> b, Z |-> c] : a \in C, b \in C, c \in C}

\* the four reference gamuts and vertex lists that are no triangle
VertexLists ==
    COLOR_GAMUTS \cup
        {<<>>, <<sRGB[1]>>, <<sRGB[1], sRGB[2]>>, sRGB \o <<BT_2020[2]>>,
         <<sRGB[1], sRGB[1], sRGB[3]>>}

InitChroma ==
    /\ spectrum = <<>>
    /\ shiftNm = R(0)
    /\ normalize = TRUE
    /\ \/ xyz \in XYZInputs /\ point = D65_XY
       \/ xyz = ZeroXYZ /\ point \in PointInputs
    /\ vertices = sRGB
    /\ called = "none"
    /\ out = Null
    /\ NoInterpolation /\ NoDiagram /\ NoApplication

CallXyzToXY ==
    /\ called = "none"
    /\ out' = xyzToXY(xyz)
    /\ called' = "xyzToXY"
    /\ UNCHANGED <<spectrum, shiftNm, normalize, xyz, point, vertices>>
    /\ UNCHANGED <<interpolateArgs, diagramProps, appState>>

CallXyzToUV ==
    /\ called = "none"
    /\ out' = xyzToUV(xyz)
    /\ called' = "xyzToUV"
    /\ UNCHANGED <<spectrum, shiftNm, normalize, xyz, point, vertices>>
    /\ UNCHANGED <<interpolateArgs, diagramProps, appState>>

CallXyToUV ==
    /\ called = "none"
    /\ out' = xyToUV(point)
    /\ called' = "xyToUV"
    /\ UNCHANGED <<spectrum, shiftNm, normalize, xyz, point, vertices>>
    /\ UNCHANGED <<interpolateArgs, diagramProps, appState>>

\* the pair in `point` is read as (u', v')
CallUvToXY ==
    /\ called = "none"
    /\ out' = uvToXY(UV(point.x, point.y))
    /\ called' = "uvToXY"
    /\ UNCHANGED <<spectrum, shiftNm, normalize, xyz, point, vertices>>
    /\ UNCHANGED <<interpolateArgs, diagramProps, appState>>

CallIsInGamut ==
    /\ called = "none"
    /\ \E vs \in VertexLists :
         /\ vertices' = vs
         /\ out' = isInGamut(point, vs)
    /\ called' = "isInGamut"
    /\ UNCHANGED <<spectrum, shiftNm, normalize, xyz, point>>
    /\ UNCHANGED <<interpolateArgs, diagramProps, appState>>

NextChroma ==
    CallXyzToXY \/ CallXyzToUV \/ CallXyToUV \/ CallUvToXY \/ CallIsInGamut

SpecChroma == InitChroma /\ [][NextChroma]_vars

----------------------------------------------------------------------------
(* normalize.ts                                                            *)

\* Math.max(...values): the fold starts from -Infinity
RECURSIVE MathMax(_, _, _)
MathMax(s, i, m) ==
    IF i > Len(s) THEN m
    ELSE MathMax(s, i + 1, IF RGt(s[i].intensity, m) THEN s[i].intensity ELSE m)

normalizeSpectrum(s) ==
    IF Len(s) = 0 THEN <<>>
    ELSE LET maxIntensity == MathMax(s, 1, NegInf)
         IN  IF maxIntensity = R(0)
             THEN [i \in 1..Len(s) |-> Point(s[i].wavelength, R(0))]
             ELSE [i \in 1..Len(s) |->
                      Point(s[i].wavelength, RDiv(s[i].intensity, maxIntensity))]

----------------------------------------------------------------------------
(* interpolate.ts                                                          *)

lerp(a, b, t) == RAdd(a, RMul(RSub(b, a), t))

\* the inner search loop of interpolateSpectrum; i is the 0-based loop index
RECURSIVE FindLowerIndex(_, _, _, _)
FindLowerIndex(sorted, wl, i, lowerIndex) ==
    IF i >= Len(sorted) - 1 THEN lowerIndex
    ELSE IF RLe(sorted[i + 1].wavelength, wl) /\ RGe(sorted[i + 2].wavelength, wl)
         THEN i
    ELSE IF RGt(sorted[i + 1].wavelength, wl) THEN lowerIndex
    ELSE FindLowerIndex(sorted, wl, i + 1, i)

\* faulty variant: the upper edge case reads the lower sample
InterpolatedPoint_lowerAtUpperEdge(sorted, wl) ==
    LET lowerIndex == FindLowerIndex(sorted, wl, 0, 0)
        lower == sorted[lowerIndex + 1]
        upper == sorted[Min(lowerIndex + 1, Len(sorted) - 1) + 1]
    IN  IF RLe(wl, lower.wavelength) THEN Point(wl, lower.intensity)
        ELSE IF RGe(wl, upper.wavelength) THEN Point(wl, lower.intensity)
        ELSE Point(wl, lerp(lower.intensity, upper.intensity,
                            RDiv(RSub(wl, lower.wavelength),
                                 RSub(upper.wavelength, lower.wavelength))))

\* one iteration of the outer loop: the point pushed for grid wavelength wl
InterpolatedPoint(sorted, wl) ==
    LET lowerIndex == FindLowerIndex(sorted, wl, 0, 0)
        lower == sorted[lowerIndex + 1]
        upper == sorted[Min(lowerIndex + 1, Len(sorted) - 1) + 1]
    IN  IF RLe(wl, lower.wavelength) THEN Point(wl, lower.intensity)
        ELSE IF RGe(wl, upper.wavelength) THEN Point(wl, upper.intensity)
        ELSE Point(wl, lerp(lower.intensity, upper.intensity,
                            RDiv(RSub(wl, lower.wavelength),
                                 RSub(upper.wavelength, lower.wavelength))))

\* for (wavelength = start; wavelength <= end; wavelength += step) for a
\* loop that ends, i.e. for step > 0 or start > end: iteration k (from 0)
\* runs with wavelength = start + k * step, and there are
\* floor((end - start) / step) + 1 iterations when start <= end
GridLoop(sorted, start, end, step) ==
    IF ~RLe(start, end) THEN <<>>
    ELSE [k \in 1..(Floor(RDiv(RSub(end, start), step)) + 1) |->
             InterpolatedPoint(sorted, RAdd(start, RMul(R(k - 1), step)))]

\* startWavelength / endWavelength are Null when the argument is omitted
interpolateSpectrum(s, step, startWavelength, endWavelength) ==
    IF Len(s) = 0 THEN <<>>
    ELSE IF Len(s) = 1 THEN s
    ELSE LET sorted == SortByWavelength(s)
             start == IF startWavelength = Null THEN sorted[1].wavelength
                      ELSE startWavelength
             end == IF endWavelength = Null THEN sorted[Len(sorted)].wavelength
                    ELSE endWavelength
         IN  GridLoop(sorted, start, end, step)

interpolateToVisibleRange(s) == interpolateSpectrum(s, R(1), R(380), R(780))

\* for (wl = from; wl <= to; wl += 1) push { wavelength: wl, intensity: 0 }
ZeroPoints(from, to) ==
    IF to < from THEN <<>>
    ELSE [k \in 1..(to - from + 1) |-> Point(R(from + k - 1), R(0))]

extendToVisibleRange(s) ==
    IF Len(s) = 0 THEN ZeroPoints(380, 780)
    ELSE LET sorted == SortByWavelength(s)
             minWl == sorted[1].wavelength
             maxWl == sorted[Len(sorted)].wavelength
             interpolated == interpolateSpectrum(sorted, R(1), Null, Null)
             \* wl = 380; wl < minWl && wl <= 780
             before == ZeroPoints(380, Min(Ceil(minWl) - 1, 780))
             data == SelectSeq(interpolated,
                        LAMBDA p : RGe(p.wavelength, R(380)) /\ RLe(p.wavelength, R(780)))
             \* wl = Math.ceil(maxWl) + 1; wl <= 780, every such wl is > maxWl
             after == ZeroPoints(Ceil(maxWl) + 1, 780)
         IN  before \o data \o after

\* DataInput.processData: what a loaded file or paste becomes
processData(rawData) == interpolateToVisibleRange(normalizeSpectrum(rawData))

----------------------------------------------------------------------------
(* Inputs of normalizeSpectrum and interpolateSpectrum: samples at three    *)
(* wavelengths in any order and with repeats, and spectra whose samples    *)
(* are all negative; grids that start at or below the data and end at or   *)
(* beyond it, with a step that hits the samples and one that does not      *)

InitInterpolate ==
    /\ spectrum \in
         SeqsUpTo({Point(R(w), R(i)) : w \in {500, 502, 505}, i \in {-1, 0, 2}}, MaxLen)
         \cup SeqsUpTo({Point(R(500), R(i)) : i \in {-2, -1}}, MaxLen)
    /\ shiftNm = R(0)
    /\ normalize = TRUE
    /\ xyz = ZeroXYZ
    /\ point = D65_XY
    /\ vertices = sRGB
    /\ called = "none"
    /\ out = Null
    /\ NoInterpolation /\ NoDiagram /\ NoApplication

CallNormalizeSpectrum ==
    /\ called = "none"
    /\ out' = normalizeSpectrum(spectrum)
    /\ called' = "normalizeSpectrum"
    /\ UNCHANGED <<coreArgs, interpolateArgs, diagramProps, appState>>

CallInterpolateSpectrum ==
    /\ called = "none"
    /\ \E st \in {R(1), Rat(5, 2)}, a \in {Null, R(499)}, b \in {Null, R(507)} :
         /\ stepNm' = st
         /\ startNm' = a
         /\ endNm' = b
         /\ out' = interpolateSpectrum(spectrum, st, a, b)
    /\ called' = "interpolateSpectrum"
    /\ UNCHANGED <<coreArgs, numPoints, pc, gridWavelength, diagramProps, appState>>

NextInterpolate == CallNormalizeSpectrum \/ CallInterpolateSpectrum

SpecInterpolate == InitInterpolate /\ [][NextInterpolate]_vars

----------------------------------------------------------------------------
(* resampleSpectrum and interpolateSpectrum followed statement by          *)
(* statement through the grid loop.  The loop condition reads only the     *)
(* loop variable and `end`, so the array being filled is left out of the   *)
(* loop state and the returned array is computed when the loop exits.      *)

InitResample ==
    /\ spectrum \in SeqsUpTo({Point(R(w), R(i)) : w \in {500, 502}, i \in {0, 1}}, MaxLen)
    /\ shiftNm = R(0)
    /\ normalize = TRUE
    /\ xyz = ZeroXYZ
    /\ point = D65_XY
    /\ vertices = sRGB
    /\ called = "none"
    /\ out = Null
    /\ NoInterpolation /\ NoDiagram /\ NoApplication

\* interpolateSpectrum up to the head of its grid loop (lines 31-48); a and b
\* are the startWavelength and endWavelength arguments
EnterInterpolateSpectrum(s, st, a, b) ==
    /\ stepNm' = st
    /\ IF Len(s) = 0
       THEN /\ out' = <<>>
            /\ pc' = "done"
            /\ UNCHANGED <<startNm, endNm, gridWavelength>>
       ELSE IF Len(s) = 1
       THEN /\ out' = s
            /\ pc' = "done"
            /\ UNCHANGED <<startNm, endNm, gridWavelength>>
       ELSE LET sorted == SortByWavelength(s)
                start == IF a = Null THEN sorted[1].wavelength ELSE a
                end == IF b = Null THEN sorted[Len(sorted)].wavelength ELSE b
            IN  /\ startNm' = start
                /\ endNm' = end
                /\ gridWavelength' = start
                /\ pc' = "test"
                /\ out' = Null

CallResampleSpectrum ==
    /\ pc = "idle"
    /\ called' = "resampleSpectrum"
    /\ \E n \in {1, 2, 3} :
         /\ numPoints' = n
         /\ IF Len(spectrum) = 0 \/ n < 2
            THEN /\ out' = spectrum
                 /\ pc' = "done"
                 /\ UNCHANGED <<stepNm, startNm, endNm, gridWavelength>>
            ELSE LET sorted == SortByWavelength(spectrum)
                     start == sorted[1].wavelength
                     end == sorted[Len(sorted)].wavelength
                 IN  EnterInterpolateSpectrum(
                         sorted, RDiv(RSub(end, start), R(n - 1)), start, end)
    /\ UNCHANGED <<coreArgs, diagramProps, appState>>

CallInterpolateSpectrumStepwise ==
    /\ pc = "idle"
    /\ called' = "interpolateSpectrum"
    /\ \E st \in {R(0), R(1)} : EnterInterpolateSpectrum(spectrum, st, Null, Null)
    /\ UNCHANGED <<coreArgs, numPoints, diagramProps, appState>>

\* the loop condition wavelength <= end (line 48)
LoopTest ==
    /\ pc = "test"
    /\ pc' = IF RLe(gridWavelength, endNm) THEN "body" ELSE "return"
    /\ UNCHANGED <<coreArgs, called, out, stepNm, startNm, endNm, numPoints,
                   gridWavelength, diagramProps, appState>>

\* the loop body pushes one point (lines 49-81), then wavelength += step
LoopBody ==
    /\ pc = "body"
    /\ gridWavelength' = RAdd(gridWavelength, stepNm)
    /\ pc' = "test"
    /\ UNCHANGED <<coreArgs, called, out, stepNm, startNm, endNm, numPoints,
                   diagramProps, appState>>

\* return result (line 84): the points pushed by the iterations that ran
ReturnResult ==
    /\ pc = "return"
    /\ out' = GridLoop(SortByWavelength(spectrum), startNm, endNm, stepNm)
    /\ pc' = "done"
    /\ UNCHANGED <<coreArgs, called, stepNm, startNm, endNm, numPoints,
                   gridWavelength, diagramProps, appState>>

NextResample ==
    \/ CallResampleSpectrum
    \/ CallInterpolateSpectrumStepwise
    \/ LoopTest
    \/ LoopBody
    \/ ReturnResult

\* a call that is inside the loop keeps executing: JavaScript runs a started
\* call without interruption
SpecResample ==
    InitResample /\ [][NextResample]_vars /\ WF_vars(LoopTest) /\ WF_vars(LoopBody)

----------------------------------------------------------------------------
(* Inputs of the data-input processing and of extendToVisibleRange: raw    *)
(* samples below the visible range, inside it and half a nanometre before  *)
(* its end                                                                 *)

MaxRawLen == 2

InitProcess ==
    /\ spectrum \in SeqsUpTo({Point(w, R(i)) : w \in {R(350), R(400), Rat(1559, 2)},
                                                i \in {-1, 0, 1}}, MaxRawLen)
    /\ shiftNm = R(0)
    /\ normalize = TRUE
    /\ xyz = ZeroXYZ
    /\ point = D65_XY
    /\ vertices = sRGB
    /\ called = "none"
    /\ out = Null
    /\ NoInterpolation /\ NoDiagram /\ NoApplication

CallExtendToVisibleRange ==
    /\ called = "none"
    /\ out' = extendToVisibleRange(spectrum)
    /\ called' = "extendToVisibleRange"
    /\ UNCHANGED <<coreArgs, interpolateArgs, diagramProps, appState>>

CallProcessData ==
    /\ called = "none"
    /\ out' = processData(spectrum)
    /\ called' = "processData"
    /\ UNCHANGED <<coreArgs, interpolateArgs, diagramProps, appState>>

NextProcess == CallExtendToVisibleRange \/ CallProcessData

SpecProcess == InitProcess /\ [][NextProcess]_vars

----------------------------------------------------------------------------
(* CIEDiagram.tsx: the spectral locus, its cubic spline and the ridge      *)

convertToMode(xy, mode) ==
    IF mode = "CIE1976"
    THEN LET uv == xyToUV(xy) IN XY(uv.u, uv.v)
    ELSE xy

\* the (x, y) of row i of SPECTRAL_LOCUS_XY
LocusVertex(i) == XY(Rat(LocusRows[i][2], 10000), Rat(LocusRows[i][3], 10000))

LocusPoint(w, x, y) == [wavelength |-> w, x |-> x, y |-> y]

\* SPECTRAL_LOCUS_XY converted to the diagram mode
spectralLocusData(mode) ==
    [i \in 1..Len(LocusRows) |->
        LET converted == convertToMode(LocusVertex(i), mode)
        IN  LocusPoint(R(LocusRows[i][1]), converted.x, converted.y)]

\* steps 2-4 of calculateCubicSpline: mu[i] and z[i] of the forward sweep;
\* xs and ys are the arrays x and y, indexed from 0
RECURSIVE ThomasSweep(_, _, _)
ThomasSweep(xs, ys, i) ==
    IF i = 0 THEN [mu |-> R(0), z |-> R(0)]
    ELSE LET h(k) == RSub(xs[k + 1], xs[k])
             before == ThomasSweep(xs, ys, i - 1)
             alpha == RSub(RMul(RDiv(R(3), h(i)), RSub(ys[i + 1], ys[i])),
                           RMul(RDiv(R(3), h(i - 1)), RSub(ys[i], ys[i - 1])))
             l == RSub(RMul(R(2), RSub(xs[i + 1], xs[i - 1])), RMul(h(i - 1), before.mu))
         IN  [mu |-> RDiv(h(i), l),
              z |-> RDiv(RSub(alpha, RMul(h(i - 1), before.z)), l)]

\* step 5: c[j] of the back substitution, c[n] = 0
RECURSIVE BackSubstitute(_, _, _, _)
BackSubstitute(xs, ys, j, n) ==
    IF j = n THEN R(0)
    ELSE LET sweep == ThomasSweep(xs, ys, j)
         IN  RSub(sweep.z, RMul(sweep.mu, BackSubstitute(xs, ys, j + 1, n)))

\* the coefficients {a, b, c, d} of segments 0 .. n-1
calculateCubicSpline(xs, ys, n) ==
    [j \in 0..(n - 1) |->
        LET h == RSub(xs[j + 1], xs[j])
            cj == BackSubstitute(xs, ys, j, n)
            cj1 == BackSubstitute(xs, ys, j + 1, n)
        IN  [a |-> ys[j],
             b |-> RSub(RDiv(RSub(ys[j + 1], ys[j]), h),
                        RDiv(RMul(h, RAdd(cj1, RMul(R(2), cj))), R(3))),
             c |-> cj,
             d |-> RDiv(RSub(cj1, cj), RMul(R(3), h))]]

\* the binary search of evaluateSpline
RECURSIVE FindSegment(_, _, _, _)
FindSegment(xs, t, low, high) ==
    IF low >= high THEN low
    ELSE LET mid == (low + high + 1) \div 2
         IN  IF RLe(xs[mid], t) THEN FindSegment(xs, t, mid, high)
             ELSE FindSegment(xs, t, low, mid - 1)

\* faulty variant: the search runs over all knots, the last one included
evaluateSpline_searchAllKnots(spline, xs, segments, t) ==
    LET i == FindSegment(xs, t, 0, segments)
    IN  IF i < 0 \/ i >= segments
        THEN (IF i < 0 THEN spline[0].a ELSE spline[segments - 1].a)
        ELSE LET dx == RSub(t, xs[i])
                 s == spline[i]
             IN  RAdd(RAdd(RAdd(s.a, RMul(s.b, dx)),
                           RMul(RMul(s.c, dx), dx)),
                      RMul(RMul(RMul(s.d, dx), dx), dx))

\* segments is the number of spline segments (spline.length = x.length - 1)
evaluateSpline(spline, xs, segments, t) ==
    LET i == FindSegment(xs, t, 0, segments - 1)
    IN  IF i < 0 \/ i >= segments
        THEN (IF i < 0 THEN spline[0].a ELSE spline[segments - 1].a)
        ELSE LET dx == RSub(t, xs[i])
                 s == spline[i]
             IN  RAdd(RAdd(RAdd(s.a, RMul(s.b, dx)),
                           RMul(RMul(s.c, dx), dx)),
                      RMul(RMul(RMul(s.d, dx), dx), dx))

\* the grid loop runs for wl = first, first + step, ... while wl <= last
\* (step > 0); the last anchor is appended when the grid misses it
generateHighResolutionLocus(locus, step) ==
    IF Len(locus) < 2 THEN locus
    ELSE LET n == Len(locus)
             wavelengths == [i \in 0..(n - 1) |-> locus[i + 1].wavelength]
             xValues == [i \in 0..(n - 1) |-> locus[i + 1].x]
             yValues == [i \in 0..(n - 1) |-> locus[i + 1].y]
             splineX == calculateCubicSpline(wavelengths, xValues, n - 1)
             splineY == calculateCubicSpline(wavelengths, yValues, n - 1)
             count == Floor(RDiv(RSub(wavelengths[n - 1], wavelengths[0]), step)) + 1
             result ==
                 [k \in 1..count |->
                     LET wl == RAdd(wavelengths[0], RMul(R(k - 1), step))
                     IN  LocusPoint(wl,
                                    evaluateSpline(splineX, wavelengths, n - 1, wl),
                                    evaluateSpline(splineY, wavelengths, n - 1, wl))]
             last == locus[n]
         IN  IF result[count].wavelength # last.wavelength
             THEN Append(result, last)
             ELSE result

\* the normal (nx, ny) is direction / |direction|; the square root is not
\* taken, so a normal is its direction and unit = FALSE, or the exact vector
\* (0, -1) and unit = TRUE when the tangent has length 0
calculateNormal(prev, curr, next) ==
    LET dx == RSub(next.x, prev.x)
        dy == RSub(next.y, prev.y)
    IN  IF dx = R(0) /\ dy = R(0) THEN [nx |-> R(0), ny |-> R(-1), unit |-> TRUE]
        ELSE LET toCenterX == RSub(Rat(33, 100), curr.x)
                 toCenterY == RSub(Rat(33, 100), curr.y)
                 \* nx * toCenterX + ny * toCenterY > 0, multiplied by len > 0
                 towardCenter ==
                     RGt(RAdd(RMul(RNeg(dy), toCenterX), RMul(dx, toCenterY)), R(0))
             IN  IF towardCenter
                 THEN [nx |-> dy, ny |-> RNeg(dx), unit |-> FALSE]
                 ELSE [nx |-> RNeg(dy), ny |-> dx, unit |-> FALSE]

getSpectrumIntensityAtWavelength(s, wl, shift) ==
    IF Len(s) = 0 THEN R(0)
    ELSE LET targetWavelength == RSub(wl, shift)
             hits == {i \in 1..(Len(s) - 1) :
                         /\ RGe(targetWavelength, s[i].wavelength)
                         /\ RLe(targetWavelength, s[i + 1].wavelength)}
         IN  IF hits = {} THEN R(0)
             ELSE LET i == CHOOSE h \in hits : \A k \in hits : h <= k
                      p1 == s[i]
                      p2 == s[i + 1]
                      t == RDiv(RSub(targetWavelength, p1.wavelength),
                                RSub(p2.wavelength, p1.wavelength))
                  IN  RAdd(RMul(p1.intensity, RSub(R(1), t)), RMul(p2.intensity, t))

\* base + n * distance for a component n of a normal: exact when the product
\* is NaN or 0 or the normal is the unit vector (0, -1); otherwise the
\* displaced coordinate is kept as base, direction component and distance
Extrude(base, normal, component, distance) ==
    IF IsNaN(distance) THEN NaN
    ELSE IF IsFinite(distance) /\ (distance = R(0) \/ component = R(0)) THEN base
    ELSE IF normal.unit THEN RAdd(base, RMul(component, distance))
    ELSE [base |-> base, along |-> component, normal |-> <<normal.nx, normal.ny>>,
          distance |-> distance]

\* the spectrumRidgeData memo: highRes is highResLocusData; Null is null
spectrumRidgeData(highRes, s, shift, mode, scale) ==
    IF Len(s) = 0 THEN Null
    ELSE LET visibleLocus ==
                 SelectSeq(highRes, LAMBDA p : RGe(p.wavelength, R(380))
                                                /\ RLe(p.wavelength, R(700)))
             ridgeScale ==
                 RMul(IF mode = "CIE1931" THEN Rat(8, 100) ELSE Rat(6, 100), scale)
         IN  [k \in 1..Len(visibleLocus) |->
                 LET curr == visibleLocus[k]
                     prev == visibleLocus[IF k - 1 > 1 THEN k - 1 ELSE 1]
                     next == visibleLocus[Min(Len(visibleLocus), k + 1)]
                     normal == calculateNormal(prev, curr, next)
                     intensity ==
                         getSpectrumIntensityAtWavelength(s, curr.wavelength, shift)
                     extrudeDistance == RMul(intensity, ridgeScale)
                 IN  [baseX |-> curr.x,
                      baseY |-> curr.y,
                      x |-> Extrude(curr.x, normal, normal.nx, extrudeDistance),
                      y |-> Extrude(curr.y, normal, normal.ny, extrudeDistance),
                      wavelength |-> curr.wavelength,
                      intensity |-> intensity]]

----------------------------------------------------------------------------
(* Inputs of generateHighResolutionLocus: every run of 2 .. MaxAnchors      *)
(* adjacent anchors of the CIE 1931 locus, with the 1 nm step of the        *)
(* component and with a step that misses the last anchor                    *)

MaxAnchors == 3

InitLocus ==
    /\ \E first \in 1..Len(LocusRows), count \in 2..MaxAnchors :
         /\ first + count - 1 <= Len(LocusRows)
         /\ locusData = SubSeq(spectralLocusData("CIE1931"), first, first + count - 1)
    /\ diagramMode = "CIE1931"
    /\ intensityScale = R(1)
    /\ stepNm \in {R(1), R(2)}
    /\ spectrum = <<>>
    /\ shiftNm = R(0)
    /\ normalize = TRUE
    /\ xyz = ZeroXYZ
    /\ point = D65_XY
    /\ vertices = sRGB
    /\ called = "none"
    /\ out = Null
    /\ startNm = Null /\ endNm = Null /\ numPoints = 0
    /\ pc = "idle" /\ gridWavelength = R(0)
    /\ NoApplication

CallGenerateHighResolutionLocus ==
    /\ called = "none"
    /\ out' = generateHighResolutionLocus(locusData, stepNm)
    /\ called' = "generateHighResolutionLocus"
    /\ UNCHANGED <<coreArgs, interpolateArgs, diagramProps, appState>>

SpecLocus == InitLocus /\ [][CallGenerateHighResolutionLocus]_vars

----------------------------------------------------------------------------
(* Inputs of the ridge: the locus between two adjacent anchors at the red   *)
(* end of the ridge range in both diagram modes, spectra of up to MaxLen    *)
(* samples there in any order and with repeats, shifts and gains            *)

InitRidge ==
    /\ \E w \in {<<"CIE1931", 64>>, <<"CIE1931", 65>>, <<"CIE1976", 65>>} :
         /\ diagramMode = w[1]
         /\ locusData = SubSeq(spectralLocusData(w[1]), w[2], w[2] + 1)
    /\ intensityScale \in {Rat(1, 2), R(2)}
    /\ spectrum \in SeqsUpTo({Point(R(w), R(i)) : w \in {697, 700}, i \in {0, 1}}, MaxLen)
    /\ shiftNm \in {R(-2), R(0), Rat(1, 2), R(1)}
    /\ normalize = TRUE
    /\ xyz = ZeroXYZ
    /\ point = D65_XY
    /\ vertices = sRGB
    /\ called = "none"
    /\ out = Null
    /\ NoInterpolation /\ NoApplication

\* highResLocusData is generateHighResolutionLocus(spectralLocusData, 1)
CallSpectrumRidgeData ==
    /\ called = "none"
    /\ out' = spectrumRidgeData(generateHighResolutionLocus(locusData, R(1)),
                                spectrum, shiftNm, diagramMode, intensityScale)
    /\ called' = "spectrumRidgeData"
    /\ UNCHANGED <<coreArgs, interpolateArgs, diagramProps, appState>>

SpecRidge == InitRidge /\ [][CallSpectrumRidgeData]_vars

----------------------------------------------------------------------------
(* Inputs of calculateNormal: the triples (prev, curr, next) that           *)
(* interpolateLocusPosition takes from spectralLocusData for a segment      *)
(* (p1, p2) and for a wavelength outside the locus; in CIE 1976 mode from   *)
(* the anchors from 700 nm on, where the u'v' coordinates are constant      *)

InitNormal ==
    /\ diagramMode \in {"CIE1931", "CIE1976"}
    /\ LET L == spectralLocusData(diagramMode)
           n == Len(L)
       IN  \E i \in {k \in 1..(n - 1) : diagramMode = "CIE1931"
                                          \/ RGe(L[k].wavelength, R(705))} :
               locusData \in {<<L[IF i - 1 > 1 THEN i - 1 ELSE 1], L[i], L[i + 1]>>,
                              <<L[i], L[i + 1], L[Min(n, i + 2)]>>,
                              IF i = 1 THEN <<L[1], L[1], L[2]>>
                                       ELSE <<L[n - 1], L[n], L[n]>>}
    /\ intensityScale = R(1)
    /\ spectrum = <<>>
    /\ shiftNm = R(0)
    /\ normalize = TRUE
    /\ xyz = ZeroXYZ
    /\ point = D65_XY
    /\ vertices = sRGB
    /\ called = "none"
    /\ out = Null
    /\ NoInterpolation /\ NoApplication

CallCalculateNormal ==
    /\ called = "none"
    /\ out' = calculateNormal(locusData[1], locusData[2], locusData[3])
    /\ called' = "calculateNormal"
    /\ UNCHANGED <<coreArgs, interpolateArgs, diagramProps, appState>>

SpecNormal == InitNormal /\ [][CallCalculateNormal]_vars

----------------------------------------------------------------------------
(* The peak marker: findInterpolatedPeakWavelength and the sampler on       *)
(* spectra in any order, uniformly and non-uniformly spaced                 *)

\* faulty variant: the offset is applied without being clamped to [-0.5, 0.5]
\* and without the flat-peak test
findInterpolatedPeakWavelength_unclamped(s, shift) ==
    LET maxIdx == CHOOSE i \in 1..Len(s) :
                      /\ \A j \in 1..Len(s) : RLe(s[j].intensity, s[i].intensity)
                      /\ \A j \in 1..(i - 1) : RLt(s[j].intensity, s[i].intensity)
        y0 == s[maxIdx - 1].intensity
        y2 == s[maxIdx + 1].intensity
        offset == RMul(Rat(1, 2), RSub(y0, y2))
        wavelengthStep == RSub(s[maxIdx + 1].wavelength, s[maxIdx].wavelength)
    IN  IF Len(s) < 3 THEN R(550)
        ELSE IF maxIdx = 1 \/ maxIdx = Len(s) THEN RAdd(s[maxIdx].wavelength, shift)
        ELSE RAdd(RAdd(s[maxIdx].wavelength, RMul(offset, wavelengthStep)), shift)

\* Math.abs(denominator) < 1e-10: a fraction n/d with d below 2^31 is that
\* small only when n = 0
findInterpolatedPeakWavelength(s, shift) ==
    IF Len(s) < 3 THEN R(550)
    ELSE LET maxIdx == CHOOSE i \in 1..Len(s) :
                           /\ \A j \in 1..Len(s) : RLe(s[j].intensity, s[i].intensity)
                           /\ \A j \in 1..(i - 1) : RLt(s[j].intensity, s[i].intensity)
         IN  IF maxIdx = 1 \/ maxIdx = Len(s) THEN RAdd(s[maxIdx].wavelength, shift)
             ELSE LET p0 == s[maxIdx - 1]
                      p1 == s[maxIdx]
                      p2 == s[maxIdx + 1]
                      y0 == p0.intensity
                      y1 == p1.intensity
                      y2 == p2.intensity
                      denominator == RAdd(RSub(y0, RMul(R(2), y1)), y2)
                  IN  IF denominator = R(0) THEN RAdd(p1.wavelength, shift)
                      ELSE LET offset == RDiv(RMul(Rat(1, 2), RSub(y0, y2)), denominator)
                               lower == IF RLt(Rat(1, 2), offset) THEN Rat(1, 2) ELSE offset
                               clampedOffset ==
                                   IF RGt(Rat(-1, 2), lower) THEN Rat(-1, 2) ELSE lower
                               wavelengthStep == RSub(p2.wavelength, p1.wavelength)
                               preciseWavelength ==
                                   RAdd(p1.wavelength, RMul(clampedOffset, wavelengthStep))
                           IN  RAdd(preciseWavelength, shift)

InitPeak ==
    /\ spectrum \in SeqsUpTo({Point(R(w), R(i)) : w \in {500, 501, 510}, i \in {0, 2, 3}},
                             MaxLen)
    /\ shiftNm \in {Rat(-3, 2), R(0)}
    /\ normalize = TRUE
    /\ xyz = ZeroXYZ
    /\ point = D65_XY
    /\ vertices = sRGB
    /\ called = "none"
    /\ out = Null
    /\ NoInterpolation /\ NoDiagram /\ NoApplication

CallFindInterpolatedPeakWavelength ==
    /\ called = "none"
    /\ out' = findInterpolatedPeakWavelength(spectrum, shiftNm)
    /\ called' = "findInterpolatedPeakWavelength"
    /\ UNCHANGED <<coreArgs, interpolateArgs, diagramProps, appState>>

\* the sampler at a wavelength of the locus; the result is kept with its
\* wavelength, as in a ridge point
CallGetSpectrumIntensityAtWavelength ==
    /\ called = "none"
    /\ \E wavelength \in {R(499), R(500), Rat(1011, 2), R(509)} :
           out' = [wavelength |-> wavelength,
                   intensity |-> getSpectrumIntensityAtWavelength(spectrum, wavelength,
                                                                  shiftNm)]
    /\ called' = "getSpectrumIntensityAtWavelength"
    /\ UNCHANGED <<coreArgs, interpolateArgs, diagramProps, appState>>

NextPeak == CallFindInterpolatedPeakWavelength \/ CallGetSpectrumIntensityAtWavelength

SpecPeak == InitPeak /\ [][NextPeak]_vars

----------------------------------------------------------------------------
(* App: the wavelength shift, the loaded spectrum, snapshots and storage.   *)
(* The spectrum is held by name: no handler modelled here reads its points. *)

\* Math.round: the nearest integer, halves towards +Infinity
MathRound(a) == IF IsFinite(a) THEN R(Floor(RAdd(a, Rat(1, 2)))) ELSE a

\* faulty variant: the value is rounded but not clamped
handleShiftChange_unclamped(value) == RDiv(MathRound(RMul(value, R(10))), R(10))

\* the value handleShiftChange passes to setShiftNm; Math.min and Math.max
\* return NaN when an argument is NaN
handleShiftChange(value) ==
    LET MathMin2(a, b) == IF IsNaN(a) \/ IsNaN(b) THEN NaN ELSE IF RLt(b, a) THEN b ELSE a
        MathMax2(a, b) == IF IsNaN(a) \/ IsNaN(b) THEN NaN ELSE IF RGt(b, a) THEN b ELSE a
        clamped == MathMax2(R(-100), MathMin2(R(100), value))
    IN  RDiv(MathRound(RMul(clamped, R(10))), R(10))

\* the SessionState object the session effect stores
SessionState(sp, shift) ==
    [spectrum |-> sp, shiftNm |-> shift, diagramMode |-> diagramMode,
     enabledGamuts |-> enabledGamuts, intensityScale |-> intensityScale,
     zoomTransform |-> zoomTransform, customAxisRanges |-> customAxisRanges]

MaxEvents == 4

\* one handler run that leaves spectrum sp, shift sh, snapshots `list` and
\* storage `storage`,
\* followed by the render and the session effect, which stores the session
\* when a value it depends on changed; newObjects: the handler set a state
\* to a newly built array or object, which differs from the old by identity
Render(sp, sh, list, storage, newObjects) ==
    /\ events < MaxEvents
    /\ events' = events + 1
    /\ spectrum' = sp
    /\ shiftNm' = sh
    /\ localStorage' = IF newObjects \/ <<sp, sh>> # <<spectrum, shiftNm>>
                       THEN [storage EXCEPT !.session = SessionState(sp, sh)]
                       ELSE storage
    /\ snapshots' = list
    /\ renderedSnapshots' = list
    /\ UNCHANGED <<normalize, xyz, point, vertices, out, interpolateArgs, diagramProps,
                   enabledGamuts, zoomTransform, customAxisRanges, isDragging,
                   lastDragPos, accumulatedDelta, animationFrameRef, dragDelta, timers,
                   isHoveringRidge>>

\* the default session after the first render, storage empty before it
InitApp ==
    /\ spectrum = "PRESET_GREEN"
    /\ shiftNm = R(0)
    /\ normalize = TRUE
    /\ xyz = ZeroXYZ
    /\ point = D65_XY
    /\ vertices = sRGB
    /\ called = "none"
    /\ out = Null
    /\ NoInterpolation /\ NoDiagram
    /\ enabledGamuts = <<"sRGB">>
    /\ zoomTransform = Null
    /\ customAxisRanges = Null
    /\ snapshots = <<>>
    /\ localStorage = [session |-> SessionState("PRESET_GREEN", R(0)), snapshots |-> Null]
    /\ events = 0
    /\ renderedSnapshots = <<>>
    /\ NoPointer

\* handleShiftChange(value) from the slider (a multiple of 0.5 in the range),
\* from the number input (parseFloat(text) || 0) and from the mobile quick
\* adjust buttons (shiftNm + delta)
CallHandleShiftChange ==
    \E value \in {R(-100), Rat(-1, 2), R(100)}
                 \cup {IF IsNaN(v) \/ v = R(0) THEN R(0) ELSE v :
                          v \in {NaN, R(-250), Rat(3726, 100), PosInf}}
                 \cup {RAdd(shiftNm, R(d)) : d \in {-10, 10}} :
        /\ called' = "handleShiftChange"
        /\ Render(spectrum, handleShiftChange(value), snapshots, localStorage, FALSE)

\* the keyboard steps of the diagram
CallHandleWavelengthShift ==
    \E delta \in {-5, -1, 1, 5} :
        /\ called' = "handleWavelengthShift"
        /\ Render(spectrum, handleShiftChange(RAdd(shiftNm, R(delta))), snapshots,
                  localStorage, FALSE)

\* a drag frame of the diagram: deltaX is a finite difference of coordinates
CallHandleDiagramDrag ==
    \E deltaX \in {Rat(-3, 4), Rat(1, 1000), Rat(1, 2)} :
        LET sensitivity == R(200)
            nmDelta == RMul(deltaX, sensitivity)
        IN  /\ called' = "handleDiagramDrag"
            /\ Render(spectrum, handleShiftChange(RAdd(shiftNm, nmDelta)), snapshots,
                      localStorage, FALSE)

\* the Reset button next to the number input: setShiftNm(0)
ResetShift ==
    /\ called' = "resetShift"
    /\ Render(spectrum, R(0), snapshots, localStorage, FALSE)

CallHandleDataLoaded ==
    \E data \in {"dataA", "dataB"} :
        /\ called' = "handleDataLoaded"
        /\ Render(data, R(0), snapshots, localStorage, TRUE)

\* addSnapshot(shiftNm, chromaticity): the chromaticity memo is a function of
\* spectrum and shiftNm and is held as that pair; the id is unique per save
CallHandleSaveSnapshot ==
    LET updated == IF Len(snapshots) >= MAX_SNAPSHOTS
                   THEN snapshots
                   ELSE Append(snapshots, [id |-> events, shiftNm |-> shiftNm,
                                           chromaticity |-> <<spectrum, shiftNm>>,
                                           label |-> Null])
    IN  /\ called' = "handleSaveSnapshot"
        /\ Render(spectrum, shiftNm, updated,
                  IF Len(snapshots) >= MAX_SNAPSHOTS
                  THEN localStorage
                  ELSE [localStorage EXCEPT !.snapshots = updated], FALSE)

CallHandleRestoreSnapshot ==
    \E i \in 1..Len(snapshots) :
        /\ called' = "handleRestoreSnapshot"
        /\ Render(spectrum, snapshots[i].shiftNm, snapshots, localStorage, FALSE)

\* removes the stored session, then sets every setting to its default;
\* ['sRGB'] and {} are new objects, so the session effect runs again
CallHandleResetAll ==
    /\ called' = "handleResetAll"
    /\ Render("PRESET_GREEN", R(0), snapshots, [localStorage EXCEPT !.session = Null],
              TRUE)

NextApp ==
    \/ CallHandleShiftChange
    \/ CallHandleWavelengthShift
    \/ CallHandleDiagramDrag
    \/ ResetShift
    \/ CallHandleDataLoaded
    \/ CallHandleSaveSnapshot
    \/ CallHandleRestoreSnapshot
    \/ CallHandleResetAll

SpecApp == InitApp /\ [][NextApp]_vars

----------------------------------------------------------------------------
(* useSnapshots: the callbacks the hook returns and its re-render.          *)
(* `snapshots` is the state with every queued update applied,               *)
(* `renderedSnapshots` the array the current callbacks were created with.   *)

MaxCalls == 3

\* loadFromStorage: nothing stored, one place left, or a full list
InitSnapshots ==
    /\ \E n \in {0, MAX_SNAPSHOTS - 1, MAX_SNAPSHOTS} :
         /\ snapshots = [k \in 1..n |-> [id |-> -k, shiftNm |-> R(0),
                                         chromaticity |-> <<"PRESET_GREEN", R(0)>>,
                                         label |-> Null]]
         /\ localStorage = [session |-> Null,
                            snapshots |-> IF n = 0 THEN Null ELSE snapshots]
    /\ renderedSnapshots = snapshots
    /\ events = 0
    /\ enabledGamuts = <<"sRGB">>
    /\ zoomTransform = Null
    /\ customAxisRanges = Null
    /\ NoPointer
    /\ spectrum = "PRESET_GREEN"
    /\ shiftNm = R(0)
    /\ normalize = TRUE
    /\ xyz = ZeroXYZ
    /\ point = D65_XY
    /\ vertices = sRGB
    /\ called = "none"
    /\ out = Null
    /\ NoInterpolation /\ NoDiagram

\* addSnapshot tests the length its closure holds, then queues an update of
\* the latest state
CallAddSnapshot ==
    /\ events < MaxCalls
    /\ events' = events + 1
    /\ called' = "addSnapshot"
    /\ \E shift \in {R(0), R(5)} :
         IF Len(renderedSnapshots) >= MAX_SNAPSHOTS
         THEN /\ out' = Null
              /\ UNCHANGED <<snapshots, localStorage>>
         ELSE LET newSnapshot == [id |-> events, shiftNm |-> shift,
                                  chromaticity |-> <<spectrum, shift>>, label |-> Null]
                  updated == Append(snapshots, newSnapshot)
              IN  /\ out' = newSnapshot
                  /\ snapshots' = updated
                  /\ localStorage' = [localStorage EXCEPT !.snapshots = updated]
    /\ UNCHANGED <<coreArgs, interpolateArgs, diagramProps, enabledGamuts, zoomTransform,
                   customAxisRanges, renderedSnapshots, isDragging, lastDragPos,
                   accumulatedDelta, animationFrameRef, dragDelta, timers,
                   isHoveringRidge>>

\* removeSnapshot(id), id of the first or the last snapshot or of none
CallRemoveSnapshot ==
    /\ events < MaxCalls
    /\ events' = events + 1
    /\ called' = "removeSnapshot"
    /\ \E id \in {snapshots[i].id : i \in {1, Len(snapshots)} \cap DOMAIN snapshots}
                 \cup {0} :
         LET updated == SelectSeq(snapshots, LAMBDA s : s.id # id)
         IN  /\ snapshots' = updated
             /\ localStorage' = [localStorage EXCEPT !.snapshots = updated]
    /\ UNCHANGED <<coreArgs, out, interpolateArgs, diagramProps, enabledGamuts,
                   zoomTransform, customAxisRanges, renderedSnapshots, isDragging,
                   lastDragPos, accumulatedDelta, animationFrameRef, dragDelta, timers,
                   isHoveringRidge>>

CallClearSnapshots ==
    /\ events < MaxCalls
    /\ events' = events + 1
    /\ called' = "clearSnapshots"
    /\ snapshots' = <<>>
    /\ localStorage' = [localStorage EXCEPT !.snapshots = <<>>]
    /\ UNCHANGED <<coreArgs, out, interpolateArgs, diagramProps, enabledGamuts,
                   zoomTransform, customAxisRanges, renderedSnapshots, isDragging,
                   lastDragPos, accumulatedDelta, animationFrameRef, dragDelta, timers,
                   isHoveringRidge>>

\* updateSnapshotLabel(id, label) on the first snapshot or on none
CallUpdateSnapshotLabel ==
    /\ events < MaxCalls
    /\ events' = events + 1
    /\ called' = "updateSnapshotLabel"
    /\ \E id \in {snapshots[i].id : i \in {1} \cap DOMAIN snapshots} \cup {0} :
         LET updated == [i \in DOMAIN snapshots |->
                            IF snapshots[i].id = id
                            THEN [snapshots[i] EXCEPT !.label = "label"]
                            ELSE snapshots[i]]
         IN  /\ snapshots' = updated
             /\ localStorage' = [localStorage EXCEPT !.snapshots = updated]
    /\ UNCHANGED <<coreArgs, out, interpolateArgs, diagramProps, enabledGamuts,
                   zoomTransform, customAxisRanges, renderedSnapshots, isDragging,
                   lastDragPos, accumulatedDelta, animationFrameRef, dragDelta, timers,
                   isHoveringRidge>>

\* the hook renders again: the callbacks are created with the current state
Rerender ==
    /\ renderedSnapshots # snapshots
    /\ renderedSnapshots' = snapshots
    /\ UNCHANGED <<coreArgs, called, out, interpolateArgs, diagramProps, enabledGamuts,
                   zoomTransform, customAxisRanges, snapshots, localStorage, events,
                   isDragging, lastDragPos, accumulatedDelta, animationFrameRef,
                   dragDelta, timers, isHoveringRidge>>

NextSnapshots ==
    \/ CallAddSnapshot
    \/ CallRemoveSnapshot
    \/ CallClearSnapshots
    \/ CallUpdateSnapshotLabel
    \/ Rerender

SpecSnapshots == InitSnapshots /\ [][NextSnapshots]_vars

----------------------------------------------------------------------------
(* CIEDiagram: the pointer handlers of the drag interaction, the animation  *)
(* frame they request and the timeout endDrag schedules. rawX is one of two *)
(* pixel columns; onRidge || onPoint of checkDraggableArea is the input hit *)

InitDrag ==
    /\ spectrum = "PRESET_GREEN"
    /\ shiftNm = R(0)
    /\ normalize = TRUE
    /\ xyz = ZeroXYZ
    /\ point = D65_XY
    /\ vertices = sRGB
    /\ called = "none"
    /\ out = Null
    /\ NoInterpolation /\ NoDiagram
    /\ enabledGamuts = <<"sRGB">>
    /\ zoomTransform = Null
    /\ customAxisRanges = Null
    /\ snapshots = <<>>
    /\ renderedSnapshots = <<>>
    /\ localStorage = [session |-> SessionState("PRESET_GREEN", R(0)), snapshots |-> Null]
    /\ events = 0
    /\ NoPointer

\* mousedown: startDrag(rawX, rawY, e)
HandleMouseDown ==
    /\ events < MaxEvents
    /\ events' = events + 1
    /\ called' = "handleMouseDown"
    /\ \E rawX \in {R(100), R(102)}, hit \in BOOLEAN :
         IF hit
         THEN /\ isDragging' = TRUE
              /\ lastDragPos' = rawX
              /\ accumulatedDelta' = R(0)
              /\ dragDelta' = R(0)
         ELSE UNCHANGED <<isDragging, lastDragPos, accumulatedDelta, dragDelta>>
    /\ UNCHANGED <<coreArgs, out, interpolateArgs, diagramProps, enabledGamuts,
                   zoomTransform, customAxisRanges, snapshots, localStorage,
                   renderedSnapshots, animationFrameRef, timers, isHoveringRidge>>

\* touchstart with a single touch: startDrag, then the hover state on success
HandleTouchStart ==
    /\ events < MaxEvents
    /\ events' = events + 1
    /\ called' = "handleTouchStart"
    /\ \E rawX \in {R(100), R(102)}, hit \in BOOLEAN :
         IF hit
         THEN /\ isDragging' = TRUE
              /\ lastDragPos' = rawX
              /\ accumulatedDelta' = R(0)
              /\ dragDelta' = R(0)
              /\ isHoveringRidge' = TRUE
         ELSE UNCHANGED <<isDragging, lastDragPos, accumulatedDelta, dragDelta,
                          isHoveringRidge>>
    /\ UNCHANGED <<coreArgs, out, interpolateArgs, diagramProps, enabledGamuts,
                   zoomTransform, customAxisRanges, snapshots, localStorage,
                   renderedSnapshots, animationFrameRef, timers>>

\* mousemove: moveDrag(rawX, rawY); a new request cancels the pending frame
HandleMouseMove ==
    /\ events < MaxEvents
    /\ events' = events + 1
    /\ called' = "handleMouseMove"
    /\ \E rawX \in {R(100), R(102)}, hit \in BOOLEAN :
         /\ isHoveringRidge' = IF ~isDragging THEN hit ELSE isHoveringRidge
         /\ animationFrameRef' =
                IF isDragging /\ lastDragPos # Null THEN rawX ELSE animationFrameRef
    /\ UNCHANGED <<coreArgs, out, interpolateArgs, diagramProps, enabledGamuts,
                   zoomTransform, customAxisRanges, snapshots, localStorage,
                   renderedSnapshots, isDragging, lastDragPos, accumulatedDelta,
                   dragDelta, timers>>

\* touchmove: ignored unless a drag is in progress
HandleTouchMove ==
    /\ events < MaxEvents
    /\ events' = events + 1
    /\ called' = "handleTouchMove"
    /\ \E rawX \in {R(100), R(102)} :
         animationFrameRef' =
             IF isDragging /\ lastDragPos # Null THEN rawX ELSE animationFrameRef
    /\ UNCHANGED <<coreArgs, out, interpolateArgs, diagramProps, enabledGamuts,
                   zoomTransform, customAxisRanges, snapshots, localStorage,
                   renderedSnapshots, isDragging, lastDragPos, accumulatedDelta,
                   dragDelta, timers, isHoveringRidge>>

\* the callback passed to requestAnimationFrame; xScale.invert is linear,
\* here 400 pixels to one unit; onShiftChange is the App's handleDiagramDrag,
\* followed by the App's session effect
AnimationFrame ==
    /\ animationFrameRef # Null
    /\ lastDragPos # Null
    /\ LET rawX == animationFrameRef
           coordDeltaX == RSub(RDiv(rawX, R(400)), RDiv(lastDragPos, R(400)))
           nmDelta == RMul(coordDeltaX, R(200))
           shifted == handleShiftChange(RAdd(shiftNm, RMul(coordDeltaX, R(200))))
       IN  /\ accumulatedDelta' = RAdd(accumulatedDelta, nmDelta)
           /\ shiftNm' = shifted
           /\ localStorage' =
                  IF shifted # shiftNm
                  THEN [localStorage EXCEPT !.session = SessionState(spectrum, shifted)]
                  ELSE localStorage
           /\ dragDelta' = accumulatedDelta'
           /\ lastDragPos' = rawX
    /\ animationFrameRef' = Null
    /\ UNCHANGED <<spectrum, normalize, xyz, point, vertices, called, out,
                   interpolateArgs, diagramProps, enabledGamuts, zoomTransform,
                   customAxisRanges, snapshots, events, renderedSnapshots, isDragging,
                   timers, isHoveringRidge>>

\* mouseup and mouseleave: endDrag()
HandleMouseUp ==
    /\ events < MaxEvents
    /\ events' = events + 1
    /\ called' = "handleMouseUp"
    /\ animationFrameRef' = Null
    /\ isDragging' = FALSE
    /\ lastDragPos' = Null
    /\ timers' = timers + 1
    /\ UNCHANGED <<coreArgs, out, interpolateArgs, diagramProps, enabledGamuts,
                   zoomTransform, customAxisRanges, snapshots, localStorage,
                   renderedSnapshots, accumulatedDelta, dragDelta, isHoveringRidge>>

\* touchend and touchcancel: the hover state is cleared, then endDrag()
HandleTouchEnd ==
    /\ events < MaxEvents
    /\ events' = events + 1
    /\ called' = "handleTouchEnd"
    /\ isHoveringRidge' = FALSE
    /\ animationFrameRef' = Null
    /\ isDragging' = FALSE
    /\ lastDragPos' = Null
    /\ timers' = timers + 1
    /\ UNCHANGED <<coreArgs, out, interpolateArgs, diagramProps, enabledGamuts,
                   zoomTransform, customAxisRanges, snapshots, localStorage,
                   renderedSnapshots, accumulatedDelta, dragDelta>>

\* 500 ms after an endDrag: setDragDelta(null)
TimeoutFires ==
    /\ timers > 0
    /\ timers' = timers - 1
    /\ dragDelta' = Null
    /\ UNCHANGED <<coreArgs, called, out, interpolateArgs, diagramProps, enabledGamuts,
                   zoomTransform, customAxisRanges, snapshots, localStorage, events,
                   renderedSnapshots, isDragging, lastDragPos, accumulatedDelta,
                   animationFrameRef, isHoveringRidge>>

NextDrag ==
    \/ HandleMouseDown
    \/ HandleTouchStart
    \/ HandleMouseMove
    \/ HandleTouchMove
    \/ AnimationFrame
    \/ HandleMouseUp
    \/ HandleTouchEnd
    \/ TimeoutFires

SpecDrag == InitDrag /\ [][NextDrag]_vars

----------------------------------------------------------------------------
(* Properties of analyzeSpectrum                                           *)

Intensities(s) == {s[i].intensity : i \in 1..Len(s)}

\* the largest intensity of a non-empty spectrum
MaxIntensity(s) == CHOOSE m \in Intensities(s) : \A x \in Intensities(s) : RLe(x, m)

\* the smallest wavelength among the samples of maximum intensity
EarliestMaxWavelength(s) ==
    LET ws == {s[i].wavelength : i \in {j \in 1..Len(s) : s[j].intensity = MaxIntensity(s)}}
    IN  CHOOSE w \in ws : \A x \in ws : RLe(w, x)

Analyzed == called = "analyzeSpectrum"

\* C2: for every non-empty spectrum in any input order the reported peak is
\* the smallest-wavelength sample among those of maximum intensity
\* (peakWavelength includes the shift); the documented tie example reports 500.
C2_PeakIsEarliestMaximum ==
    /\ (Analyzed /\ Len(spectrum) > 0) =>
          /\ out.peakIntensity = MaxIntensity(spectrum)
          /\ out.peakWavelength = RAdd(EarliestMaxWavelength(spectrum), shiftNm)
    /\ (Analyzed /\ spectrum = TieExample /\ shiftNm = R(0)) =>
          out.peakWavelength = R(500)

\* an unsorted permutation of the tie example was analysed
C2_Witness ==
    /\ Analyzed
    /\ spectrum = <<Point(R(510), Rat(1, 2)), Point(R(505), R(1)), Point(R(500), R(1))>>
    /\ shiftNm = R(0)
    /\ out.peakWavelength = R(500)
    /\ out.peakIntensity = R(1)

ShiftedRange(base, r, d) ==
    /\ (r = Null) <=> (base = Null)
    /\ r # Null => (r[1] = RAdd(base[1], d) /\ r[2] = RAdd(base[2], d))

ShiftOnlyMovesCoordinates ==
    LET base == analyzeSpectrum(spectrum, R(0))
    IN  /\ out.peakIntensity = base.peakIntensity
        /\ out.peakWavelength = RAdd(base.peakWavelength, shiftNm)
        /\ ShiftedRange(base.fwhmRange, out.fwhmRange, shiftNm)
        /\ ShiftedRange(base.fwqmRange, out.fwqmRange, shiftNm)

\* C4 as stated: for every spectrum, the empty one included, peakWavelength is
\* the shift-0 peakWavelength plus the shift, peakIntensity and the nullness of
\* the ranges are those of shift 0, and range endpoints move by the shift
C4_Original == Analyzed => ShiftOnlyMovesCoordinates

\* C4 (amended): the statement holds for every non-empty spectrum; the empty
\* spectrum reports peakWavelength 0 whatever the shift
C4_ShiftOnlyMovesCoordinates ==
    /\ (Analyzed /\ Len(spectrum) > 0) => ShiftOnlyMovesCoordinates
    /\ (Analyzed /\ Len(spectrum) = 0) => out = analyzeSpectrum(spectrum, R(0))

C4_Witness ==
    /\ Analyzed
    /\ shiftNm = R(-2)
    /\ Len(spectrum) = 3
    /\ out.fwhmRange # Null
    /\ out.fwqmRange # Null
    /\ out.fwqmRange # out.fwhmRange

\* the width measurement stated over the sorted samples: the pairs each scan
\* can stop at, the first one met going outward from the peak, and the
\* crossing interpolated inside it
SetMax(S) == CHOOSE x \in S : \A y \in S : y <= x
SetMin(S) == CHOOSE x \in S : \A y \in S : x <= y

Crossing(s, a, b, level) ==
    RAdd(s[a].wavelength,
         RMul(RDiv(RSub(level, s[a].intensity), RSub(s[b].intensity, s[a].intensity)),
              RSub(s[b].wavelength, s[a].wavelength)))

LeftPairs(s, pk, level) ==
    {i \in 2..pk : RGe(s[i].intensity, level) /\ RLt(s[i - 1].intensity, level)}

RightPairs(s, pk, level) ==
    {i \in pk..(Len(s) - 1) : RGe(s[i].intensity, level) /\ RLt(s[i + 1].intensity, level)}

ExpectedRange(s, pk, level, d) ==
    IF LeftPairs(s, pk, level) = {} \/ RightPairs(s, pk, level) = {} THEN Null
    ELSE LET i == SetMax(LeftPairs(s, pk, level))
             j == SetMin(RightPairs(s, pk, level))
         IN  <<RAdd(Crossing(s, i - 1, i, level), d), RAdd(Crossing(s, j, j + 1, level), d)>>

ExpectedWidth(s, pk, level) ==
    IF LeftPairs(s, pk, level) = {} \/ RightPairs(s, pk, level) = {} THEN Null
    ELSE LET i == SetMax(LeftPairs(s, pk, level))
             j == SetMin(RightPairs(s, pk, level))
         IN  RSub(Crossing(s, j, j + 1, level), Crossing(s, i - 1, i, level))

\* index of the first sorted sample of maximum intensity
EarliestMaxIndex(sorted) ==
    SetMin({i \in 1..Len(sorted) : sorted[i].intensity = MaxIntensity(sorted)})

\* C5: a range is reported only when the leftward scan from the peak finds a
\* pair (>= level, then < level to its left) and the rightward scan finds its
\* mirror image; otherwise range and width are null, in particular when the
\* peak is the first or last sorted sample; the width is right crossing minus
\* left crossing, each interpolated inside the first pair found
C5_WidthOnlyWithBothCrossings ==
    (Analyzed /\ Len(spectrum) > 0) =>
        LET sorted == SortByWavelength(spectrum)
            pk == EarliestMaxIndex(sorted)
            half == RDiv(MaxIntensity(spectrum), R(2))
            quarter == RDiv(MaxIntensity(spectrum), R(4))
        IN  /\ out.fwhmRange = ExpectedRange(sorted, pk, half, shiftNm)
            /\ out.fwqmRange = ExpectedRange(sorted, pk, quarter, shiftNm)
            /\ out.fwhm = ExpectedWidth(sorted, pk, half)
            /\ out.fwqm = ExpectedWidth(sorted, pk, quarter)
            /\ (pk = 1 \/ pk = Len(sorted)) =>
                  /\ out.fwhmRange = Null /\ out.fwhm = Null
                  /\ out.fwqmRange = Null /\ out.fwqm = Null

\* the rightward scan passed the pair (505, 510) and stopped at (510, 520)
C5_Witness ==
    /\ Analyzed
    /\ spectrum = PlateauExample
    /\ shiftNm = R(0)
    /\ out.fwhmRange = <<Rat(1005, 2), R(510)>>
    /\ out.fwhm = Rat(15, 2)
    /\ out.fwqmRange = <<Rat(2005, 4), R(515)>>

\* C7 as stated: the empty spectrum and every spectrum whose maximum
\* intensity is 0 give fwhm, fwhmRange, fwqm and fwqmRange all null (and the
\* empty spectrum gives peakWavelength 0 and peakIntensity 0)
C7_ZeroMaxWidthsNull ==
    /\ (Analyzed /\ Len(spectrum) = 0) =>
          (out.peakWavelength = R(0) /\ out.peakIntensity = R(0))
    /\ (Analyzed /\ (Len(spectrum) = 0 \/ MaxIntensity(spectrum) = R(0))) =>
          /\ out.fwhm = Null /\ out.fwhmRange = Null
          /\ out.fwqm = Null /\ out.fwqmRange = Null

----------------------------------------------------------------------------
(* Properties of spectrumToXYZ and calculateChromaticity                   *)

\* the trapezoidal integral of one channel over the sorted samples, summed
\* from the last pair down
RECURSIVE TrapezoidSum(_, _, _)
TrapezoidSum(sorted, i, component) ==
    IF i >= Len(sorted) THEN R(0)
    ELSE RAdd(RMul(RMul(RSub(sorted[i + 1].wavelength, sorted[i].wavelength), Rat(1, 2)),
                   RAdd(RMul(interpolateObserver(sorted[i].wavelength, component),
                             sorted[i].intensity),
                        RMul(interpolateObserver(sorted[i + 1].wavelength, component),
                             sorted[i + 1].intensity))),
              TrapezoidSum(sorted, i + 1, component))

RawIntegrals(s) ==
    LET sorted == SortByWavelength(s)
    IN  [X |-> TrapezoidSum(sorted, 1, 2), Y |-> TrapezoidSum(sorted, 1, 3),
         Z |-> TrapezoidSum(sorted, 1, 4)]

\* C1: with normalize and raw Y > 0 the result has Y = 100 and X, Z are the
\* raw integrals times 100/Y; with raw Y <= 0 (the empty and the single-point
\* spectrum included) and with normalize = false the raw integrals come back
C1_NormalizeToY100 ==
    called = "spectrumToXYZ" =>
        LET raw == RawIntegrals(spectrum)
        IN  /\ (normalize /\ RGt(raw.Y, R(0))) =>
                  /\ out.Y = R(100)
                  /\ RMul(out.X, raw.Y) = RMul(raw.X, R(100))
                  /\ RMul(out.Z, raw.Y) = RMul(raw.Z, R(100))
            /\ (normalize /\ RLe(raw.Y, R(0))) => out = raw
            /\ ~normalize => out = raw
            /\ Len(spectrum) <= 1 => out = ZeroXYZ

\* a normalizing call on unsorted samples whose raw Y is positive and not 100
C1_Witness ==
    /\ called = "spectrumToXYZ"
    /\ normalize
    /\ spectrum = <<Point(R(382), R(1)), Point(R(375), R(0)), Point(R(380), R(1))>>
    /\ out.Y = R(100)
    /\ RawIntegrals(spectrum).Y # R(100)
    /\ RGt(out.Z, out.X)

\* C6 as stated: the empty spectrum and every spectrum whose maximum
\* intensity is 0 give xyz = (0,0,0) and the D65 fallbacks in both spaces
C6_ZeroMaxNeutral ==
    (called = "calculateChromaticity"
        /\ (Len(spectrum) = 0 \/ MaxIntensity(spectrum) = R(0))) =>
        /\ out.xyz = ZeroXYZ
        /\ out.cie1931 = D65_XY
        /\ out.cie1976 = D65_UV

----------------------------------------------------------------------------
(* Properties of the coordinate conversions                                *)

FinitePair(a, b) == IsFinite(a) /\ IsFinite(b)

LocusEdgeCrossed(p, a, b) ==
    /\ RGt(a.y, p.y) # RGt(b.y, p.y)
    /\ LET lhs == RMul(RSub(p.x, a.x), RSub(b.y, a.y))
           rhs == RMul(RSub(b.x, a.x), RSub(p.y, a.y))
       IN  IF RGt(b.y, a.y) THEN RLt(lhs, rhs) ELSE RGt(lhs, rhs)

InsideLocus(p) ==
    LET n == Len(LocusRows)
        crossed == {i \in 1..n :
                      LocusEdgeCrossed(p, LocusVertex(i), LocusVertex((i % n) + 1))}
    IN  Cardinality(crossed) % 2 = 1

\* C9: for every (x, y) inside the visible locus, uvToXY(xyToUV((x, y)))
\* gives back (x, y)
C9_RoundTrip ==
    (called = "xyToUV" /\ InsideLocus(point)) => uvToXY(out) = point

\* a point inside the locus, away from the white point, was converted
C9_Witness ==
    /\ called = "xyToUV"
    /\ point = XY(Rat(3, 20), Rat(14, 20))
    /\ InsideLocus(point)
    /\ out # D65_UV
    /\ out.u # point.x

\* the closed triangle v1 v2 v3, by the side of each edge the point lies on
Cross(a, b, p) ==
    RSub(RMul(RSub(b.x, a.x), RSub(p.y, a.y)), RMul(RSub(b.y, a.y), RSub(p.x, a.x)))

InClosedTriangle(p, v) ==
    LET d1 == Cross(v[1], v[2], p)
        d2 == Cross(v[2], v[3], p)
        d3 == Cross(v[3], v[1], p)
    IN  \/ (RGe(d1, R(0)) /\ RGe(d2, R(0)) /\ RGe(d3, R(0)))
        \/ (RLe(d1, R(0)) /\ RLe(d2, R(0)) /\ RLe(d3, R(0)))

\* C10: isInGamut is false for every vertex list whose length is not 3; for
\* each reference gamut it holds exactly on the closed triangle, so each
\* vertex of a gamut is inside that gamut; (0.70, 0.29) is outside sRGB and
\* inside BT.2020
C10_GamutTest ==
    called = "isInGamut" =>
        /\ Len(vertices) # 3 => out = FALSE
        /\ vertices \in COLOR_GAMUTS => (out <=> InClosedTriangle(point, vertices))
        /\ (vertices \in COLOR_GAMUTS /\ point \in {vertices[i] : i \in 1..3}) => out = TRUE
        /\ (point = BeyondSRGB /\ vertices = sRGB) => out = FALSE
        /\ (point = BeyondSRGB /\ vertices = BT_2020) => out = TRUE

\* the sRGB red primary was tested against sRGB
C10_Witness ==
    /\ called = "isInGamut"
    /\ vertices = sRGB
    /\ point = XY(Rat(64, 100), Rat(33, 100))
    /\ out = TRUE

----------------------------------------------------------------------------
(* Properties of normalizeSpectrum and interpolateSpectrum                  *)

AllZero(s) == \A i \in 1..Len(s) : s[i].intensity = R(0)

\* C11: for every spectrum that is not all-zero, normalising the normalised
\* spectrum gives the normalised spectrum again, point for point; when the
\* maximum intensity is 0 every output intensity is 0 and nothing is divided
C11_NormalizeIdempotent ==
    called = "normalizeSpectrum" =>
        /\ ~AllZero(spectrum) => normalizeSpectrum(out) = out
        /\ (Len(spectrum) > 0 /\ MathMax(spectrum, 1, NegInf) = R(0)) =>
               /\ Len(out) = Len(spectrum)
               /\ AllZero(out)

\* the start, end and sorted samples an interpolateSpectrum call works with
GridStart == IF startNm = Null THEN SortByWavelength(spectrum)[1].wavelength ELSE startNm
GridEnd ==
    IF endNm = Null THEN SortByWavelength(spectrum)[Len(spectrum)].wavelength ELSE endNm

\* result is exactly start, start + step, ... not exceeding end
IsGrid(result, start, end, step) ==
    /\ \A k \in 1..(Len(result) - 1) :
           result[k + 1].wavelength = RAdd(result[k].wavelength, step)
    /\ IF RGt(start, end) THEN Len(result) = 0
       ELSE /\ Len(result) > 0
            /\ result[1].wavelength = start
            /\ RLe(result[Len(result)].wavelength, end)
            /\ RGt(RAdd(result[Len(result)].wavelength, step), end)

\* the intensity is the linear interpolation at w between samples a and b
IsLerpBetween(intensity, a, b, w) ==
    intensity = lerp(a.intensity, b.intensity,
                     RDiv(RSub(w, a.wavelength), RSub(b.wavelength, a.wavelength)))

----------------------------------------------------------------------------
(* Properties of extendToVisibleRange and of the data-input processing      *)

\* C13: for every input spectrum the result of extendToVisibleRange is in
\* strictly ascending wavelength order, starts at 380 and ends at 780, has
\* no wavelength outside [380, 780], and is 0 at every wavelength outside
\* the wavelength extent of the input
C13_CoversVisibleRange ==
    called = "extendToVisibleRange" =>
        /\ Len(out) > 0
        /\ \A k \in 1..(Len(out) - 1) : RLt(out[k].wavelength, out[k + 1].wavelength)
        /\ out[1].wavelength = R(380)
        /\ out[Len(out)].wavelength = R(780)
        /\ \A k \in 1..Len(out) :
               /\ RGe(out[k].wavelength, R(380))
               /\ RLe(out[k].wavelength, R(780))
               /\ (\A i \in 1..Len(spectrum) :
                       \/ RLt(out[k].wavelength, spectrum[i].wavelength)
                       \/ \A j \in 1..Len(spectrum) :
                              RGt(out[k].wavelength, spectrum[j].wavelength))
                   => out[k].intensity = R(0)

\* C17: when the loaded data contain negative intensities, the processed
\* spectrum (normalizeSpectrum, then interpolateToVisibleRange) contains no
\* negative intensity
C17_NegativesBecomeZero ==
    (/\ called = "processData"
     /\ \E i \in 1..Len(spectrum) : RLt(spectrum[i].intensity, R(0)))
        => \A k \in 1..Len(out) : ~RLt(out[k].intensity, R(0))

\* the points of s whose wavelength no earlier point of s has
FirstOccurrences(s) ==
    SelectSeq([i \in 1..Len(s) |->
                  [p |-> s[i],
                   first |-> \A j \in 1..(i - 1) : s[j].wavelength # s[i].wavelength]],
              LAMBDA e : e.first)

\* C18: when the loaded data contain several points with one wavelength, the
\* processed spectrum depends only on the first occurrence of each
\* wavelength: deleting the later duplicates leaves it unchanged
C18_FirstOccurrenceOnly ==
    called = "processData" =>
        LET firsts == FirstOccurrences(spectrum)
        IN  out = processData([i \in 1..Len(firsts) |-> firsts[i].p])

----------------------------------------------------------------------------
(* Termination of resampleSpectrum and interpolateSpectrum                  *)

\* C14: every call of resampleSpectrum(s, n) and of interpolateSpectrum(s,
\* step) runs to completion and returns a value, for every spectrum (also
\* one whose points all share one wavelength), every n and every step: a
\* started call reaches its return statement
C14_EveryCallReturns == (called # "none") ~> (pc \in {"return", "done"})

----------------------------------------------------------------------------
(* Properties of the locus spline and of the ridge                          *)

\* C15: for a zero spectrum (non-empty, every intensity 0), every shift,
\* every gain and both diagram modes, the extruded position (x, y) of every
\* ridge point equals its base position (baseX, baseY)
C15_ZeroSpectrumNoExtrusion ==
    (called = "spectrumRidgeData" /\ Len(spectrum) > 0 /\ AllZero(spectrum)) =>
        \A k \in 1..Len(out) : out[k].x = out[k].baseX /\ out[k].y = out[k].baseY

IsSortedAscending(s) ==
    \A i \in 1..(Len(s) - 1) : RLe(s[i].wavelength, s[i + 1].wavelength)

\* the values a linear interpolation of s can take at wavelength w: the
\* intensity of a sample at w, or the interpolation between two neighbours
\* that bracket w
InterpolationsAt(s, w) ==
    {s[i].intensity : i \in {j \in 1..Len(s) : s[j].wavelength = w}}
    \cup {lerp(s[i].intensity, s[i + 1].intensity,
               RDiv(RSub(w, s[i].wavelength),
                    RSub(s[i + 1].wavelength, s[i].wavelength))) :
            i \in {j \in 1..(Len(s) - 1) : /\ RLt(s[j].wavelength, w)
                                           /\ RLt(w, s[j + 1].wavelength)}}

\* C20: the ridge holds exactly the high-resolution locus points with
\* wavelength in [380, 700]; for a spectrum sorted ascending the intensity
\* of the ridge point at locus wavelength w under shift d is the linear
\* interpolation of the spectrum at w - d, or 0 when w - d is outside the
\* sample range; hence it equals the ridge intensity at w - d under shift 0
\* whenever both wavelengths are on the ridge
C20_RidgeFollowsShift ==
    (called = "spectrumRidgeData" /\ Len(spectrum) > 0 /\ IsSortedAscending(spectrum)) =>
        LET highRes == generateHighResolutionLocus(locusData, R(1))
            visible == {k \in 1..Len(highRes) :
                           /\ RGe(highRes[k].wavelength, R(380))
                           /\ RLe(highRes[k].wavelength, R(700))}
            unshifted == spectrumRidgeData(highRes, spectrum, R(0), diagramMode,
                                           intensityScale)
        IN  /\ Len(out) = Cardinality(visible)
            /\ \A k \in 1..Len(out) :
                 LET target == RSub(out[k].wavelength, shiftNm)
                 IN  /\ k \in visible
                     /\ out[k].wavelength = highRes[k].wavelength
                     /\ out[k].baseX = highRes[k].x
                     /\ out[k].baseY = highRes[k].y
                     /\ IF \/ RLt(target, spectrum[1].wavelength)
                           \/ RGt(target, spectrum[Len(spectrum)].wavelength)
                        THEN out[k].intensity = R(0)
                        ELSE out[k].intensity \in InterpolationsAt(spectrum, target)
                     /\ \A j \in 1..Len(unshifted) :
                          unshifted[j].wavelength = target =>
                              out[k].intensity = unshifted[j].intensity

----------------------------------------------------------------------------
(* Properties of the application state                                      *)

\* C19: starting from the default session with empty storage, after any
\* sequence of slider changes, number-input changes, keyboard steps, diagram
\* drags, shift resets, data loads, snapshot saves, snapshot restores and
\* Reset All, the shift lies in [-100, 100]
C19_ShiftWithinRange == RGe(shiftNm, R(-100)) /\ RLe(shiftNm, R(100))

\* a drag beyond the lower end was saved as a snapshot, the shift was moved
\* away, and the snapshot was restored
C19_Witness ==
    /\ called = "handleRestoreSnapshot"
    /\ events = 4
    /\ shiftNm = R(-100)
    /\ Len(snapshots) = 1
    /\ snapshots[1].id = 1
    /\ localStorage.session.shiftNm = R(-100)

\* C23: for every spectrum sorted ascending, consecutive points with the
\* same wavelength allowed, and every query wavelength and shift,
\* getSpectrumIntensityAtWavelength returns a finite number, so the intensity
\* of every ridge point is finite
C23_SamplerFiniteOnDuplicates ==
    (called = "spectrumRidgeData" /\ Len(spectrum) > 0 /\ IsSortedAscending(spectrum)) =>
        \A k \in 1..Len(out) : IsFinite(out[k].intensity)

\* C21: calculateNormal never returns a vector that points toward the
\* interior reference (0.33, 0.33): the dot product of the returned normal
\* with ((0.33, 0.33) - curr) is never positive, in the xy and in the u'v'
\* working space, the fallback normal (0, -1) included
C21_NormalPointsOutward ==
    (called = "calculateNormal") =>
        LET curr == locusData[2]
            dot == RAdd(RMul(out.nx, RSub(Rat(33, 100), curr.x)),
                        RMul(out.ny, RSub(Rat(33, 100), curr.y)))
        IN  RLe(dot, R(0))

----------------------------------------------------------------------------
(* Properties of the peak marker                                            *)

\* the index findInterpolatedPeakWavelength selects: the first maximum
PeakIndex(s) ==
    CHOOSE i \in 1..Len(s) :
        /\ \A j \in 1..Len(s) : RLe(s[j].intensity, s[i].intensity)
        /\ \A j \in 1..(i - 1) : RLt(s[j].intensity, s[i].intensity)

\* C22: for a spectrum of at least 3 points sorted ascending whose discrete
\* maximum is at an interior index i, the result minus the shift lies
\* between the wavelengths of samples i-1 and i+1 and at most half a sample
\* spacing away from sample i; when the maximum is at the first or the last
\* index, or the second difference is 0, the result is the wavelength of
\* sample i plus the shift
C22_PeakWithinNeighbours ==
    (/\ called = "findInterpolatedPeakWavelength"
     /\ Len(spectrum) >= 3
     /\ IsSortedAscending(spectrum)) =>
        LET i == PeakIndex(spectrum)
            peak == RSub(out, shiftNm)
        IN  IF i = 1 \/ i = Len(spectrum)
            THEN out = RAdd(spectrum[i].wavelength, shiftNm)
            ELSE LET before == spectrum[i - 1]
                     at == spectrum[i]
                     after == spectrum[i + 1]
                     secondDifference ==
                         RAdd(RSub(before.intensity, RMul(R(2), at.intensity)),
                              after.intensity)
                 IN  /\ RGe(peak, before.wavelength)
                     /\ RLe(peak, after.wavelength)
                     /\ RLe(RMul(R(2), RSub(at.wavelength, peak)),
                            RSub(at.wavelength, before.wavelength))
                     /\ RLe(RMul(R(2), RSub(peak, at.wavelength)),
                            RSub(after.wavelength, at.wavelength))
                     /\ (secondDifference = R(0)) => (peak = at.wavelength)

\* the wavelengths of s are pairwise distinct
DistinctWavelengths(s) ==
    \A i, j \in 1..Len(s) : (s[i].wavelength = s[j].wavelength) => (i = j)

\* C24: for a spectrum with distinct wavelengths, the sampler and the peak
\* search process it in ascending wavelength order whatever order the
\* producer supplies: every permutation of the points gives the result of
\* the ascending one
C24_ConsumersSortFirst ==
    (called # "none" /\ DistinctWavelengths(spectrum)) =>
        LET sorted == SortByWavelength(spectrum)
        IN  IF called = "findInterpolatedPeakWavelength"
            THEN out = findInterpolatedPeakWavelength(sorted, shiftNm)
            ELSE out.intensity =
                     getSpectrumIntensityAtWavelength(sorted, out.wavelength, shiftNm)

----------------------------------------------------------------------------
(* Properties of spectrumToXYZ on permuted input                            *)

\* every array holding the points of s in some order
Reorderings(s) ==
    {[i \in 1..Len(s) |-> s[f[i]]] :
        f \in {g \in [1..Len(s) -> 1..Len(s)] :
                  \A i, j \in 1..Len(s) : (g[i] = g[j]) => (i = j)}}

\* C25: spectrumToXYZ leaves the caller's array as it was, and for a
\* spectrum with distinct wavelengths every permutation of the points gives
\* the same XYZ result, raw and normalized
C25_OrderIndependentAndPure ==
    [][(called' = "spectrumToXYZ") =>
          /\ spectrum' = spectrum
          /\ DistinctWavelengths(spectrum) =>
                 \A p \in Reorderings(spectrum) : spectrumToXYZ(p, normalize') = out']_vars

\* an unsorted three-point spectrum with distinct wavelengths was integrated:
\* the result is not zero and differs from the integral in the given order
C25_Witness ==
    /\ called = "spectrumToXYZ"
    /\ Len(spectrum) = 3
    /\ DistinctWavelengths(spectrum)
    /\ spectrum # SortByWavelength(spectrum)
    /\ out.Y # R(0)
    /\ out # spectrumToXYZ_unsorted(spectrum, normalize)

----------------------------------------------------------------------------
(* Properties across the two monitors                                       *)

\* C27: for every spectrum, in any input order, with or without tied
\* maxima, and every shift, the dominantWavelength of
\* calculateChromaticity(shiftSpectrum(s, d)) equals the peakWavelength of
\* analyzeSpectrum(s, d)
C27_DisplayedPeaksAgree ==
    Analyzed =>
        calculateChromaticity(shiftSpectrum(spectrum, shiftNm)).dominantWavelength
            = out.peakWavelength

----------------------------------------------------------------------------
(* Properties of the width ranges                                           *)

\* C29: whenever fwhmRange is non-null, fwhmRange[0] <= peakWavelength <=
\* fwhmRange[1], so fwhm >= 0; whenever fwqmRange is non-null, fwhmRange is
\* non-null too, fwqmRange[0] <= fwhmRange[0] and fwhmRange[1] <=
\* fwqmRange[1], so fwqm >= fwhm; and every endpoint is a finite number: the
\* crossing interpolation never divides by zero
C29_WidthRangesNested ==
    Analyzed =>
        /\ (out.fwhmRange # Null) =>
              /\ IsFinite(out.fwhmRange[1]) /\ IsFinite(out.fwhmRange[2])
              /\ RLe(out.fwhmRange[1], out.peakWavelength)
              /\ RLe(out.peakWavelength, out.fwhmRange[2])
              /\ RGe(out.fwhm, R(0))
        /\ (out.fwqmRange # Null) =>
              /\ IsFinite(out.fwqmRange[1]) /\ IsFinite(out.fwqmRange[2])
              /\ out.fwhmRange # Null
              /\ RLe(out.fwqmRange[1], out.fwhmRange[1])
              /\ RLe(out.fwhmRange[2], out.fwqmRange[2])
              /\ RGe(out.fwqm, out.fwhm)

\* a shifted spectrum whose quarter-maximum range strictly contains the
\* half-maximum range, which strictly contains the peak
C29_Witness ==
    /\ Analyzed
    /\ shiftNm = Rat(7, 2)
    /\ out.fwqmRange # Null
    /\ RLt(out.fwqmRange[1], out.fwhmRange[1])
    /\ RLt(out.fwhmRange[1], out.peakWavelength)
    /\ RLt(out.peakWavelength, out.fwhmRange[2])
    /\ RLt(out.fwhmRange[2], out.fwqmRange[2])

----------------------------------------------------------------------------
(* Properties of snapshots                                                  *)

\* C28: restoring a snapshot that is in the list makes the application's
\* current chromaticity, that of the current spectrum under the current
\* shift, equal to the chromaticity stored in that snapshot; the restored
\* snapshot is one of those whose shift is the current shift
C28_RestoreRestoresColour ==
    (called = "handleRestoreSnapshot") =>
        \E i \in 1..Len(snapshots) :
            /\ snapshots[i].shiftNm = shiftNm
            /\ snapshots[i].chromaticity = <<spectrum, shiftNm>>

\* C26: starting from at most MAX_SNAPSHOTS stored snapshots, after any
\* sequence of addSnapshot, removeSnapshot, clearSnapshots and
\* updateSnapshotLabel calls interleaved in any way with re-renders, the
\* list holds at most MAX_SNAPSHOTS entries, and an addSnapshot call made
\* while the list is full returns null and adds nothing
C26_ListNeverExceedsMaximum ==
    [][/\ Len(snapshots') <= MAX_SNAPSHOTS
       /\ (called' = "addSnapshot" /\ events' # events
              /\ Len(snapshots) >= MAX_SNAPSHOTS) =>
             (out' = Null /\ snapshots' = snapshots)]_vars

----------------------------------------------------------------------------
(* Properties of the drag interaction                                       *)

\* C30: between a successful startDrag and the next endDrag, that is while
\* isDragging is true, dragDelta is not null: the timeout scheduled by an
\* earlier endDrag does not clear it during a later drag
C30_TooltipKeptDuringDrag == isDragging => (dragDelta # Null)

====
